---- MODULE Spec2Model ----
\* Model of the course-materials RAG backend: the sequential tool-orchestration
\* loop (backend/ai_generator.py) and the tools and tool manager it dispatches
\* to (backend/search_tools.py).
EXTENDS Integers, Sequences, FiniteSets, TLC

\* ------------------------------------------------------------------ bounds
\* Largest value of the max_rounds argument explored.
MaxRounds == 2
\* Content blocks the language model may emit, over one query, in responses
\* whose stop reason is tool_use.
MaxBlocks == 3

\* ------------------------------------------------------------ Python values
\* Optional values: None, or a value.
None == [some |-> FALSE]
Some(v) == [some |-> TRUE, val |-> v]
\* Python truthiness of an optional string / optional list.
TruthyStr(o) == o.some /\ o.val /= ""
TruthySeq(o) == o.some /\ o.val /= <<>>

\* "sep".join(parts)
RECURSIVE Join(_, _)
Join(sep, parts) ==
    IF parts = <<>> THEN ""
    ELSE IF Len(parts) = 1 THEN parts[1]
    ELSE parts[1] \o sep \o Join(sep, Tail(parts))

\* ------------------------------------------------ storage layer (environment)
\* Links the vector store knows: get_course_link / get_lesson_link.
CourseTitles == {"Python Basics", "MCP Intro"}

get_course_link(title) ==
    IF title = "Python Basics" THEN Some("https://ex.com/python")
    ELSE IF title = "MCP Intro" THEN Some("https://ex.com/mcp")
    ELSE None

get_lesson_link(title, n) ==
    IF title = "Python Basics" /\ n = 1 THEN Some("https://ex.com/python/1")
    ELSE None

\* A chunk's metadata dict; a key may be missing.
Meta(title, lesson) == [course_title |-> title, lesson_number |-> lesson]

\* SearchResults(documents, metadata, distances, error)
SearchResults(docs, metas, err) ==
    [kind |-> "results", documents |-> docs, metadata |-> metas, error |-> err]

\* SearchResults.is_empty()
is_empty(results) == Len(results.documents) = 0

\* What store.search(...) may hand back: a raised exception, a result set that
\* carries an error, an empty result set, or documents with their metadata.
NoCourseError(course_name) == "No course found matching '" \o course_name \o "'"

StoreFailure == [kind |-> "raise", msg |-> "store unavailable"]

ResultsLessonAndCourse ==
    SearchResults(<<"doc one", "doc two">>,
                  <<Meta(Some("Python Basics"), Some(1)),
                    Meta(Some("Python Basics"), None)>>, None)

ResultsOther ==
    SearchResults(<<"doc three">>, <<Meta(Some("MCP Intro"), Some(0))>>, None)

ResultsNoTitle ==
    SearchResults(<<"doc four">>, <<Meta(None, None)>>, None)

EmptyResults == SearchResults(<<>>, <<>>, None)

ErrorResults(msg) == SearchResults(<<>>, <<>>, Some(msg))

\* The outcomes of store.search for the arguments it is called with: when a
\* course_name is given and cannot be resolved the store reports the error.
StoreSearchOutcomes(course_name) ==
    {StoreFailure, EmptyResults, ErrorResults("Search error: index down"),
     ResultsLessonAndCourse, ResultsOther, ResultsNoTitle}
    \cup (IF course_name.some THEN {ErrorResults(NoCourseError(course_name.val))}
          ELSE {})

\* ---------------------------------------------------------- CourseSearchTool
\* Outcome of a call: it returned a string or raised, and the tool's
\* last_sources afterwards.
Returned(value, sources) == [raised |-> FALSE, value |-> value, last_sources |-> sources]
Raised(msg, sources) == [raised |-> TRUE, value |-> msg, last_sources |-> sources]

\* Python's binding of **kwargs to a signature.
Binds(kwargs, required, allowed) ==
    /\ required \subseteq DOMAIN kwargs
    /\ DOMAIN kwargs \subseteq allowed

Arg(kwargs, key) == IF key \in DOMAIN kwargs THEN kwargs[key] ELSE None

LessonSuffix(lesson_num) ==
    IF lesson_num.some THEN " - Lesson " \o ToString(lesson_num.val) ELSE ""

\* One iteration of the loop of _format_results.
FormatHeader(meta) ==
    LET course_title == IF meta.course_title.some THEN meta.course_title.val ELSE "unknown"
    IN  "[" \o course_title \o LessonSuffix(meta.lesson_number) \o "]"

\* (variant: a lesson without a link of its own gets the course link)
FormatSource_CourseFallback(meta) ==
    LET course_title == IF meta.course_title.some THEN meta.course_title.val ELSE "unknown"
        lesson_num == meta.lesson_number
        lesson_link == IF lesson_num.some
                          /\ get_lesson_link(course_title, lesson_num.val).some
                       THEN get_lesson_link(course_title, lesson_num.val)
                       ELSE IF course_title /= "unknown" THEN get_course_link(course_title)
                       ELSE None
    IN  [text |-> course_title \o LessonSuffix(lesson_num), link |-> lesson_link]

FormatSource(meta) ==
    LET course_title == IF meta.course_title.some THEN meta.course_title.val ELSE "unknown"
        lesson_num == meta.lesson_number
        lesson_link == IF lesson_num.some THEN get_lesson_link(course_title, lesson_num.val)
                       ELSE IF course_title /= "unknown" THEN get_course_link(course_title)
                       ELSE None
    IN  [text |-> course_title \o LessonSuffix(lesson_num), link |-> lesson_link]

\* zip(results.documents, results.metadata)
ZipLen(results) ==
    IF Len(results.documents) < Len(results.metadata)
    THEN Len(results.documents) ELSE Len(results.metadata)

FormatSources(results) == [i \in 1..ZipLen(results) |-> FormatSource(results.metadata[i])]

\* (variant: a blank line between the header and the document)
FormatBlocks_BlankLine(results) ==
    [i \in 1..ZipLen(results) |->
        FormatHeader(results.metadata[i]) \o "\n\n" \o results.documents[i]]

FormatBlocks(results) ==
    [i \in 1..ZipLen(results) |->
        FormatHeader(results.metadata[i]) \o "\n" \o results.documents[i]]

\* CourseSearchTool._format_results: the text, and the new last_sources.
format_results(results) ==
    Returned(Join("\n\n", FormatBlocks(results)), FormatSources(results))

EmptyMessage(course_name, lesson_number) ==
    "No relevant content found"
        \o (IF TruthyStr(course_name) THEN " in course '" \o course_name.val \o "'" ELSE "")
        \o (IF lesson_number.some /\ lesson_number.val /= 0
            THEN " in lesson " \o ToString(lesson_number.val) ELSE "")
        \o "."

\* (variant: the error of the result set is not looked at)
SearchExecuteBody_ErrorIgnored(query, course_name, lesson_number, results, last_sources) ==
    IF results.kind = "raise" THEN Raised(results.msg, last_sources)
    ELSE IF is_empty(results)
         THEN Returned(EmptyMessage(course_name, lesson_number), last_sources)
    ELSE format_results(results)

\* (variant: the error is wrapped)
SearchExecuteBody_ErrorWrapped(query, course_name, lesson_number, results, last_sources) ==
    IF results.kind = "raise" THEN Raised(results.msg, last_sources)
    ELSE IF TruthyStr(results.error)
         THEN Returned("Search failed: " \o results.error.val, last_sources)
    ELSE IF is_empty(results)
         THEN Returned(EmptyMessage(course_name, lesson_number), last_sources)
    ELSE format_results(results)

\* (variant: a search without results empties the sources)
SearchExecuteBody_ClearsOnEmpty(query, course_name, lesson_number, results, last_sources) ==
    IF results.kind = "raise" THEN Raised(results.msg, last_sources)
    ELSE IF TruthyStr(results.error) THEN Returned(results.error.val, last_sources)
    ELSE IF is_empty(results)
         THEN Returned(EmptyMessage(course_name, lesson_number), <<>>)
    ELSE format_results(results)

\* CourseSearchTool.execute(query, course_name=None, lesson_number=None), given
\* what store.search hands back.
SearchExecuteBody(query, course_name, lesson_number, results, last_sources) ==
    IF results.kind = "raise" THEN Raised(results.msg, last_sources)
    ELSE IF TruthyStr(results.error) THEN Returned(results.error.val, last_sources)
    ELSE IF is_empty(results)
         THEN Returned(EmptyMessage(course_name, lesson_number), last_sources)
    ELSE format_results(results)

SearchParams == {"query", "course_name", "lesson_number"}

CourseSearchTool_execute(kwargs, results, last_sources) ==
    IF ~Binds(kwargs, {"query"}, SearchParams)
    THEN Raised("execute() got unexpected or missing arguments", last_sources)
    ELSE SearchExecuteBody(kwargs.query, Arg(kwargs, "course_name"),
                           Arg(kwargs, "lesson_number"), results, last_sources)

\* --------------------------------------------- course catalog (environment)
\* Distances are in tenths on the index's scale: 1.8 is 18.
Threshold == 18

\* course_catalog.query(query_texts=[name], n_results=1): a raised exception,
\* or a dict of parallel lists of lists; keys and entries may be missing.
QueryHit(title, distances) ==
    [kind |-> "ok", documents |-> <<<<"doc">>>>,
     metadatas |-> <<<<[title |-> title]>>>>, distances |-> distances]

CatalogQueryOutcomes ==
    {[kind |-> "raise", msg |-> "index down"],
     \* no result
     [kind |-> "ok", documents |-> <<<<>>>>, metadatas |-> <<<<>>>>,
      distances |-> Some(<<<<>>>>)],
     \* incomplete responses
     [kind |-> "ok", documents |-> <<>>, metadatas |-> <<>>, distances |-> None],
     [kind |-> "ok", documents |-> <<<<"doc">>>>, metadatas |-> <<>>,
      distances |-> Some(<<<<5>>>>)],
     [kind |-> "ok", documents |-> <<<<"doc">>>>,
      metadatas |-> <<<<[title |-> "Python Basics"]>>>>],
     [kind |-> "ok", documents |-> <<<<"doc">>>>,
      metadatas |-> <<<<[course |-> "Python Basics"]>>>>,
      distances |-> Some(<<<<5>>>>)],
     QueryHit("", Some(<<<<5>>>>))}
    \cup {QueryHit(t, Some(<<<<d>>>>)) :
            t \in CourseTitles, d \in {0, Threshold - 1, Threshold, Threshold + 1}}
    \cup {QueryHit("Python Basics", ds) : ds \in {None, Some(<<>>), Some(<<<<>>>>)}}

\* A stored lesson list: lessons_json, and what json.loads makes of it.
Lesson(n, title) == [lesson_number |-> n, lesson_title |-> title]
LessonsJson(lessons) == [valid |-> TRUE, value |-> lessons]
BadJson == [valid |-> FALSE, value |-> <<>>]

CatalogMeta(title, link, instructor, lessons_json) ==
    [title |-> title, course_link |-> link, instructor |-> instructor,
     lessons_json |-> lessons_json]

\* course_catalog.get(ids=[title]): a raised exception, nothing, or a dict
\* whose 'metadatas' holds the stored entry.
CatalogGetOutcomes ==
    {[kind |-> "raise", msg |-> "catalog down"],
     [kind |-> "none"],
     [kind |-> "ok", metadatas |-> None],
     [kind |-> "ok", metadatas |-> Some(<<>>)]}
    \cup {[kind |-> "ok", metadatas |-> Some(<<m>>)] : m \in
            {CatalogMeta(Some("Python Basics"), Some("https://ex.com/python"),
                         Some("Ann"),
                         Some(LessonsJson(<<Lesson(Some(0), Some("Intro")),
                                            Lesson(Some(1), Some("Variables"))>>))),
             CatalogMeta(Some("MCP Intro"), Some(""), None, Some(LessonsJson(<<>>))),
             CatalogMeta(Some("MCP Intro"), None, Some(""),
                         Some(LessonsJson(<<Lesson(None, None)>>))),
             CatalogMeta(None, None, Some("Bob"), None),
             CatalogMeta(Some("Python Basics"), None, None, Some(BadJson))}}

\* --------------------------------------------------------- CourseOutlineTool
\* (variant: no distance check)
resolve_course_name_NoThreshold(q) ==
    IF q.kind = "raise" THEN None
    ELSE IF Len(q.documents) = 0 THEN None
    ELSE IF q.documents[1] = <<>> THEN None
    ELSE IF Len(q.metadatas) = 0 THEN None
    ELSE IF q.metadatas[1] = <<>> THEN None
    ELSE IF "distances" \notin DOMAIN q THEN None
    ELSE IF "title" \notin DOMAIN q.metadatas[1][1] THEN None
    ELSE Some(q.metadatas[1][1].title)

\* (variant: a distance at the threshold is rejected too)
resolve_course_name_Inclusive(q) ==
    IF q.kind = "raise" THEN None
    ELSE IF Len(q.documents) = 0 THEN None
    ELSE IF q.documents[1] = <<>> THEN None
    ELSE IF Len(q.metadatas) = 0 THEN None
    ELSE IF q.metadatas[1] = <<>> THEN None
    ELSE IF "distances" \notin DOMAIN q THEN None
    ELSE IF /\ TruthySeq(q.distances)
            /\ q.distances.val[1] /= <<>>
            /\ q.distances.val[1][1] >= Threshold
         THEN None
    ELSE IF "title" \notin DOMAIN q.metadatas[1][1] THEN None
    ELSE Some(q.metadatas[1][1].title)

\* (variant: no try/except, the exception leaves the resolver)
resolve_course_name_Unguarded(q) ==
    IF q.kind = "raise" THEN [some |-> FALSE, raised |-> q.msg]
    ELSE IF Len(q.documents) = 0 THEN [some |-> FALSE, raised |-> "IndexError"]
    ELSE IF q.documents[1] = <<>> THEN None
    ELSE IF Len(q.metadatas) = 0 THEN [some |-> FALSE, raised |-> "IndexError"]
    ELSE IF q.metadatas[1] = <<>> THEN None
    ELSE IF "distances" \notin DOMAIN q THEN [some |-> FALSE, raised |-> "KeyError"]
    ELSE IF /\ TruthySeq(q.distances)
            /\ q.distances.val[1] /= <<>>
            /\ q.distances.val[1][1] > Threshold
         THEN None
    ELSE IF "title" \notin DOMAIN q.metadatas[1][1]
         THEN [some |-> FALSE, raised |-> "KeyError"]
    ELSE Some(q.metadatas[1][1].title)

\* CourseOutlineTool._resolve_course_name, given the index's response: the
\* title, or None. Every exception inside is caught and gives None.
resolve_course_name(q) ==
    IF q.kind = "raise" THEN None
    ELSE IF Len(q.documents) = 0 THEN None              \* IndexError, caught
    ELSE IF q.documents[1] = <<>> THEN None
    ELSE IF Len(q.metadatas) = 0 THEN None              \* IndexError, caught
    ELSE IF q.metadatas[1] = <<>> THEN None
    ELSE IF "distances" \notin DOMAIN q THEN None       \* KeyError, caught
    ELSE IF /\ TruthySeq(q.distances)
            /\ q.distances.val[1] /= <<>>
            /\ q.distances.val[1][1] > Threshold
         THEN None
    ELSE IF "title" \notin DOMAIN q.metadatas[1][1] THEN None   \* KeyError, caught
    ELSE Some(q.metadatas[1][1].title)

\* dict.get(key, default) on an optional stored value.
GetOr(o, default) == IF o.some THEN o.val ELSE default

LessonLine(lesson) ==
    "  - Lesson " \o ToString(GetOr(lesson.lesson_number, 0)) \o ": "
        \o GetOr(lesson.lesson_title, "Untitled")

\* (variant: the link line is written also for an empty link)
OutlineLines_AlwaysLink(course_title, course_link, instructor, lessons) ==
    <<"**Course Title:** " \o course_title>>
    \o <<"**Course Link:** " \o course_link>>
    \o (IF instructor /= "" THEN <<"**Instructor:** " \o instructor>> ELSE <<>>)
    \o <<"**Total Lessons:** " \o ToString(Len(lessons))>>
    \o <<"\n**Lessons:**">>
    \o [i \in 1..Len(lessons) |-> LessonLine(lessons[i])]

OutlineLines(course_title, course_link, instructor, lessons) ==
    <<"**Course Title:** " \o course_title>>
    \o (IF course_link /= "" THEN <<"**Course Link:** " \o course_link>> ELSE <<>>)
    \o (IF instructor /= "" THEN <<"**Instructor:** " \o instructor>> ELSE <<>>)
    \o <<"**Total Lessons:** " \o ToString(Len(lessons))>>
    \o <<"\n**Lessons:**">>
    \o [i \in 1..Len(lessons) |-> LessonLine(lessons[i])]

\* (variant: the link is the stored link, also when it is empty)
OutlineSource_LinkAlways(course_title, course_link) ==
    [text |-> course_title \o " - Course Outline", link |-> Some(course_link)]

OutlineSource(course_title, course_link) ==
    [text |-> course_title \o " - Course Outline",
     link |-> IF course_link /= "" THEN Some(course_link) ELSE None]

\* (variant: no try/except around the fetch and the parse)
OutlineFromCatalog_Unguarded(course_name, g, last_sources) ==
    IF g.kind = "raise" THEN Raised(g.msg, last_sources)
    ELSE IF g.kind = "none" \/ ~TruthySeq(g.metadatas)
    THEN Returned("Could not retrieve outline for course '" \o course_name \o "'",
                  last_sources)
    ELSE LET metadata == g.metadatas.val[1]
             course_title == GetOr(metadata.title, "Unknown Course")
             course_link == GetOr(metadata.course_link, "")
             instructor == GetOr(metadata.instructor, "")
             lessons_json == GetOr(metadata.lessons_json, LessonsJson(<<>>))
         IN  IF ~lessons_json.valid
             THEN Raised("Expecting value: line 1 column 1 (char 0)", last_sources)
             ELSE Returned(Join("\n", OutlineLines(course_title, course_link,
                                                   instructor, lessons_json.value)),
                           <<OutlineSource(course_title, course_link)>>)

\* Steps 2.. of CourseOutlineTool.execute, inside its try block.
OutlineFromCatalog(course_name, g, last_sources) ==
    IF g.kind = "raise"
    THEN Returned("Error retrieving course outline: " \o g.msg, last_sources)
    ELSE IF g.kind = "none" \/ ~TruthySeq(g.metadatas)
    THEN Returned("Could not retrieve outline for course '" \o course_name \o "'",
                  last_sources)
    ELSE LET metadata == g.metadatas.val[1]
             course_title == GetOr(metadata.title, "Unknown Course")
             course_link == GetOr(metadata.course_link, "")
             instructor == GetOr(metadata.instructor, "")
             lessons_json == GetOr(metadata.lessons_json, LessonsJson(<<>>))
         IN  IF ~lessons_json.valid
             THEN Returned("Error retrieving course outline: "
                               \o "Expecting value: line 1 column 1 (char 0)",
                           last_sources)
             ELSE Returned(Join("\n", OutlineLines(course_title, course_link,
                                                   instructor, lessons_json.value)),
                           <<OutlineSource(course_title, course_link)>>)

\* (variant: the catalog entry is fetched whatever the resolver says)
OutlineExecuteBody_NoEarlyReturn(course_name, q, g, last_sources) ==
    OutlineFromCatalog(course_name, g, last_sources)

\* Whether execute gets as far as course_catalog.get(ids=[resolved_title]).
OutlineFetches(q) == TruthyStr(resolve_course_name(q))

OutlineExecuteBody(course_name, q, g, last_sources) ==
    LET resolved_title == resolve_course_name(q)
    IN  IF ~TruthyStr(resolved_title)
        THEN Returned(NoCourseError(course_name), last_sources)
        ELSE OutlineFromCatalog(course_name, g, last_sources)

\* CourseOutlineTool.execute(course_name), given the catalog's responses.
CourseOutlineTool_execute(kwargs, q, g, last_sources) ==
    IF ~Binds(kwargs, {"course_name"}, {"course_name"})
    THEN Raised("execute() got unexpected or missing arguments", last_sources)
    ELSE OutlineExecuteBody(kwargs.course_name, q, g, last_sources)

\* ------------------------------------------- storage layer: unified search
\* store.search(query, course_name, lesson_number): when a course_name is given
\* the store resolves it first, and fails the whole search when that fails;
\* otherwise it answers with what the content index gives.
vector_store_search(course_name, q, content) ==
    IF course_name.some /\ ~resolve_course_name(q).some
    THEN ErrorResults(NoCourseError(course_name.val))
    ELSE content

\* ---------------------------------------------------------------- ToolManager
\* The two tool instances the service registers, in registration order.
SearchTool == "CourseSearchTool"
OutlineTool == "CourseOutlineTool"
ToolInstances == {SearchTool, OutlineTool}

\* What else a caller may hand to register_tool: a second CourseSearchTool
\* instance, a tool whose definition has no "name" key, and one whose name is
\* the empty string.
SearchTool2 == "CourseSearchTool#2"
NamelessTool == "ToolWithoutName"
EmptyNameTool == "ToolWithEmptyName"
RegistrableTools == ToolInstances \cup {SearchTool2, NamelessTool, EmptyNameTool}

\* Tool.get_tool_definition()["name"]
ToolName(tool) ==
    IF tool \in {SearchTool, SearchTool2} THEN "search_course_content"
    ELSE "get_course_outline"

\* tool.get_tool_definition().get("name")
DefinitionName(tool) ==
    IF tool = NamelessTool THEN None
    ELSE IF tool = EmptyNameTool THEN Some("")
    ELSE Some(ToolName(tool))

\* ToolManager.tools is a dict: its entries in insertion order.
RECURSIVE IndexOf(_, _)
IndexOf(reg, name) ==
    IF reg = <<>> THEN 0
    ELSE IF reg[Len(reg)].name = name THEN Len(reg)
    ELSE IndexOf(SubSeq(reg, 1, Len(reg) - 1), name)

DefaultRegistry ==
    <<[name |-> ToolName(SearchTool), tool |-> SearchTool],
      [name |-> ToolName(OutlineTool), tool |-> OutlineTool]>>

\* The register_tool calls that built a registry of distinct names.
RegistrationsOf(reg) == [k \in DOMAIN reg |-> [tool |-> reg[k].tool, raised |-> FALSE]]

NameError == "Tool must have a 'name' in its definition"

\* (variant: a name that is already registered keeps its first tool)
register_tool_KeepsFirst(reg, tool) ==
    LET tool_name == DefinitionName(tool)
    IN  IF ~TruthyStr(tool_name)
        THEN [raised |-> TRUE, value |-> NameError, tools |-> reg]
        ELSE IF IndexOf(reg, tool_name.val) = 0
        THEN [raised |-> FALSE, value |-> "",
              tools |-> Append(reg, [name |-> tool_name.val, tool |-> tool])]
        ELSE [raised |-> FALSE, value |-> "", tools |-> reg]

\* (variant: a re-registered name moves to the end)
register_tool_MovesToEnd(reg, tool) ==
    LET tool_name == DefinitionName(tool)
    IN  IF ~TruthyStr(tool_name)
        THEN [raised |-> TRUE, value |-> NameError, tools |-> reg]
        ELSE [raised |-> FALSE, value |-> "",
              tools |-> Append(SelectSeq(reg, LAMBDA e : e.name /= tool_name.val),
                               [name |-> tool_name.val, tool |-> tool])]

\* ToolManager.register_tool(tool): ValueError when the definition has no name
\* or an empty one; otherwise self.tools[tool_name] = tool, which keeps the
\* place of a key the dict already holds.
register_tool(reg, tool) ==
    LET tool_name == DefinitionName(tool)
    IN  IF ~TruthyStr(tool_name)
        THEN [raised |-> TRUE, value |-> NameError, tools |-> reg]
        ELSE IF IndexOf(reg, tool_name.val) = 0
        THEN [raised |-> FALSE, value |-> "",
              tools |-> Append(reg, [name |-> tool_name.val, tool |-> tool])]
        ELSE [raised |-> FALSE, value |-> "",
              tools |-> [reg EXCEPT ![IndexOf(reg, tool_name.val)].tool = tool]]

\* What the storage layer answers during one tool execution.
StoreEnv(results, q, g) == [results |-> results, q |-> q, g |-> g]

\* tool.execute(**kwargs) on a tool instance.
ToolExecute(tool, kwargs, env, sources) ==
    IF tool \in {SearchTool, SearchTool2}
    THEN CourseSearchTool_execute(kwargs, env.results, sources)
    ELSE CourseOutlineTool_execute(kwargs, env.q, env.g, sources)

NotFoundMessage(tool_name) == "Tool '" \o tool_name \o "' not found"

\* (variant: an unknown name is a KeyError)
execute_tool_KeyError(reg, srcs, tool_name, kwargs, env) ==
    IF IndexOf(reg, tool_name) = 0
    THEN [raised |-> TRUE, value |-> "KeyError: " \o tool_name,
          last_sources |-> srcs, ran |-> "none"]
    ELSE LET tool == reg[IndexOf(reg, tool_name)].tool
             out == ToolExecute(tool, kwargs, env, srcs[tool])
         IN  [raised |-> out.raised, value |-> out.value,
              last_sources |-> [srcs EXCEPT ![tool] = out.last_sources],
              ran |-> tool]

\* ToolManager.execute_tool(tool_name, **kwargs): the outcome, every tool's
\* last_sources afterwards, and the tool instance that ran ("none": no tool).
execute_tool(reg, srcs, tool_name, kwargs, env) ==
    IF IndexOf(reg, tool_name) = 0
    THEN [raised |-> FALSE, value |-> NotFoundMessage(tool_name),
          last_sources |-> srcs, ran |-> "none"]
    ELSE LET tool == reg[IndexOf(reg, tool_name)].tool
             out == ToolExecute(tool, kwargs, env, srcs[tool])
         IN  [raised |-> out.raised, value |-> out.value,
              last_sources |-> [srcs EXCEPT ![tool] = out.last_sources],
              ran |-> tool]

\* (variant: the sources of every tool, merged)
RECURSIVE get_last_sources_Merged(_, _)
get_last_sources_Merged(reg, srcs) ==
    IF reg = <<>> THEN <<>>
    ELSE srcs[reg[1].tool] \o get_last_sources_Merged(Tail(reg), srcs)

\* ToolManager.get_last_sources(): the loop over self.tools.values().
RECURSIVE get_last_sources(_, _)
get_last_sources(reg, srcs) ==
    IF reg = <<>> THEN <<>>
    ELSE IF srcs[reg[1].tool] /= <<>> THEN srcs[reg[1].tool]
    ELSE get_last_sources(Tail(reg), srcs)

\* (variant: only the first registered tool is reset)
reset_sources_FirstOnly(reg, srcs) ==
    [t \in DOMAIN srcs |-> IF reg /= <<>> /\ reg[1].tool = t THEN <<>> ELSE srcs[t]]

\* (variant: nothing is reset)
reset_sources_Nothing(reg, srcs) == srcs

\* ToolManager.reset_sources(): every tool's last_sources afterwards.
reset_sources(reg, srcs) ==
    [t \in DOMAIN srcs |->
        IF \E k \in DOMAIN reg : reg[k].tool = t THEN <<>> ELSE srcs[t]]

\* ------------------------------------------------- language model (environment)
StopReasons == {"end_turn", "tool_use"}

TextBlock(call_no) == [type |-> "text", text |-> "text of response " \o ToString(call_no)]

ToolUseId(call_no, pos) == "toolu_" \o ToString(call_no) \o "_" \o ToString(pos)

ToolUseBlock(call_no, pos, name, input) ==
    [type |-> "tool_use", id |-> ToolUseId(call_no, pos), name |-> name, input |-> input]

\* Names the model may ask for: the two tools and one that does not exist.
RequestableNames == {"search_course_content", "get_course_outline", "summarize"}

\* Arguments the model sends with a tool call.
ModelInputs(name) ==
    IF name = "get_course_outline"
    THEN {[course_name |-> "Python"]}
    ELSE {[query |-> "variables"]}

BlockChoices(call_no, pos, with_tools) ==
    {TextBlock(call_no)}
    \cup (IF with_tools
          THEN UNION {{ToolUseBlock(call_no, pos, n, i) : i \in ModelInputs(n)} :
                        n \in RequestableNames}
          ELSE {})

\* Contents of k blocks, the block at position p drawn from BlockChoices.
RECURSIVE ContentsOfLen(_, _, _)
ContentsOfLen(k, call_no, with_tools) ==
    IF k = 0 THEN {<<>>}
    ELSE {Append(c, b) : c \in ContentsOfLen(k - 1, call_no, with_tools),
                         b \in BlockChoices(call_no, k, with_tools)}

\* The responses the model may give to a request. A content is never empty; a
\* tool_use block appears only when the request offered tools, and then the stop
\* reason is tool_use; a response with stop reason tool_use need not hold a
\* tool_use block.
ModelResponses(request, call_no, budget) ==
    IF request.tools.some
    THEN {[stop_reason |-> "end_turn", content |-> <<TextBlock(call_no)>>]}
         \cup {[stop_reason |-> "tool_use", content |-> c] :
                 c \in UNION {ContentsOfLen(k, call_no, TRUE) : k \in 1..budget}}
    ELSE {[stop_reason |-> s, content |-> <<TextBlock(call_no)>>] : s \in StopReasons}

\* Blocks a response takes from the budget of the query.
Emitted(request, resp) ==
    IF request.tools.some /\ resp.stop_reason = "tool_use" THEN Len(resp.content) ELSE 0

\* What the storage layer answers to the tool calls of a query.
LoopSearchOutcomes == {StoreFailure, EmptyResults, ResultsLessonAndCourse}

QueryMiss ==
    [kind |-> "ok", documents |-> <<<<>>>>, metadatas |-> <<<<>>>>,
     distances |-> Some(<<<<>>>>)]

GetPython ==
    [kind |-> "ok", metadatas |-> Some(<<
        CatalogMeta(Some("Python Basics"), Some("https://ex.com/python"), Some("Ann"),
                    Some(LessonsJson(<<Lesson(Some(0), Some("Intro")),
                                       Lesson(Some(1), Some("Variables"))>>)))>>)]

LoopEnvs(name) ==
    IF name = ToolName(SearchTool)
    THEN {StoreEnv(r, QueryMiss, GetPython) : r \in LoopSearchOutcomes}
    ELSE IF name = ToolName(OutlineTool)
    THEN {StoreEnv(EmptyResults, q, GetPython) :
            q \in {QueryMiss, QueryHit("Python Basics", Some(<<<<5>>>>))}}
    ELSE {StoreEnv(EmptyResults, QueryMiss, GetPython)}

\* ------------------------------------------------------------------ state
VARIABLES
    pc,                \* where generate_response stands
    max_rounds,        \* arguments of generate_response
    tools,
    tool_manager,
    messages,          \* locals of generate_response
    current_round,
    response,
    updated_messages,  \* locals of _execute_tools_and_update_messages
    tool_results,
    block_idx,
    outcome,           \* how generate_response ended
    api_calls,         \* every request sent to the model, in order
    dispatches,        \* every execute_tool call, in order
    registry,          \* ToolManager.tools
    registrations,     \* every register_tool call so far, with how it ended
    inflight,          \* the service queries that share the tools, by query
    last_sources,      \* last_sources of each tool instance
    call               \* the latest call made on a tool or on the manager itself

vars == <<pc, max_rounds, tools, tool_manager, messages, current_round, response,
          updated_messages, tool_results, block_idx, outcome, api_calls, dispatches,
          registry, registrations, inflight, last_sources, call>>

loopVars == <<pc, max_rounds, tools, tool_manager, messages, current_round, response,
              updated_messages, tool_results, block_idx, outcome, api_calls, dispatches>>

Query == "What is Python?"
UserQuery == [role |-> "user", content |-> <<[type |-> "text", text |-> Query]>>]
NoResponse == [stop_reason |-> "", content |-> <<>>]
NoOutcome == [kind |-> "none", value |-> ""]
NoCall == [op |-> "none"]

\* The two service queries that may be in flight at once; none has started.
QueryIds == {1, 2}
NotStarted == [pc |-> "idle"]
NoInflight == [q \in QueryIds |-> NotStarted]

\* The tools argument: None, an empty list, or the manager's definitions.
ToolsArgs ==
    {None, Some(<<>>), Some(<<ToolName(SearchTool), ToolName(OutlineTool)>>)}

Init ==
    /\ pc = "idle"
    /\ max_rounds = 0
    /\ tools = None
    /\ tool_manager = FALSE
    /\ messages = <<>>
    /\ current_round = 0
    /\ response = NoResponse
    /\ updated_messages = <<>>
    /\ tool_results = <<>>
    /\ block_idx = 0
    /\ outcome = NoOutcome
    /\ api_calls = <<>>
    /\ dispatches = <<>>
    /\ registry = DefaultRegistry
    /\ registrations = RegistrationsOf(registry)
    /\ inflight = NoInflight
    /\ last_sources = [t \in ToolInstances |-> <<>>]
    /\ call = NoCall

\* ------------------------------------------------------------- AIGenerator
\* (variant: the tools are sent without a tool choice)
RoundRequest_NoToolChoice(msgs, tls) ==
    IF TruthySeq(tls)
    THEN [messages |-> msgs, tools |-> Some(tls.val), tool_choice |-> None,
          final |-> FALSE]
    ELSE [messages |-> msgs, tools |-> None, tool_choice |-> None, final |-> FALSE]

\* The api_params of _make_api_call.
RoundRequest(msgs, tls) ==
    IF TruthySeq(tls)
    THEN [messages |-> msgs, tools |-> Some(tls.val), tool_choice |-> Some("auto"),
          final |-> FALSE]
    ELSE [messages |-> msgs, tools |-> None, tool_choice |-> None, final |-> FALSE]

\* (variant: the final call still offers the tools)
FinalRequestWithTools(msgs) ==
    [messages |-> msgs, tools |-> Some(<<ToolName(SearchTool), ToolName(OutlineTool)>>),
     tool_choice |-> Some("auto"), final |-> TRUE]

\* The api_params of _make_final_call.
FinalRequest(msgs) ==
    [messages |-> msgs, tools |-> None, tool_choice |-> None, final |-> TRUE]

\* response.content[0].text: IndexError on an empty content, AttributeError on
\* a block that has no text.
FirstText(resp) ==
    IF Len(resp.content) = 0
    THEN [kind |-> "raised", value |-> "IndexError: list index out of range"]
    ELSE IF "text" \in DOMAIN resp.content[1]
    THEN [kind |-> "returned", value |-> resp.content[1].text]
    ELSE [kind |-> "raised", value |-> "AttributeError: no attribute 'text'"]

\* The condition of the early return inside the round loop.
ReturnsEarly(resp, manager) == resp.stop_reason /= "tool_use" \/ ~manager

\* Blocks of tool_use responses already received in this query.
RECURSIVE BlocksEmitted(_)
BlocksEmitted(calls) ==
    IF calls = <<>> THEN 0
    ELSE BlocksEmitted(SubSeq(calls, 1, Len(calls) - 1)) + calls[Len(calls)].emitted

Budget == MaxBlocks - BlocksEmitted(api_calls)

Logged(request, emitted, failed) ==
    [messages |-> request.messages, tools |-> request.tools,
     tool_choice |-> request.tool_choice, final |-> request.final, emitted |-> emitted,
     failed |-> failed]

\* (variant: the loop runs one round too many)
RoundsRemainInclusive(round, limit) == round <= limit

\* The condition of the while loop of generate_response.
RoundsRemain(round, limit) == round < limit

\* (variant: the failure is swallowed and its message returned as the answer)
ApiFailureSwallowed(msg) == [kind |-> "returned", value |-> msg]

\* A model call that raises: generate_response has no handler around it.
ApiFailure(msg) == [kind |-> "raised", value |-> msg]

\* (variant: a raising dispatch ends the loop over the blocks)
AfterDispatchStopsOnError(idx, out, n) == IF out.raised THEN n + 1 ELSE idx + 1

\* The for loop of _execute_tools_and_update_messages moves to the next block,
\* whether the dispatch returned or its exception was caught.
AfterDispatch(idx, out, n) == idx + 1

\* (variant: the round counter is not advanced)
NextRoundStuck(round) == round

\* current_round += 1
NextRound(round) == round + 1

\* generate_response(query, tools=..., tool_manager=..., max_rounds=...) is called.
GenerateResponse ==
    /\ pc = "idle"
    /\ \E n \in (0 - 1)..MaxRounds, t \in ToolsArgs, m \in BOOLEAN :
        /\ max_rounds' = n
        /\ tools' = t
        /\ tool_manager' = m
    /\ messages' = <<UserQuery>>
    /\ current_round' = 0
    /\ pc' = "loop"
    /\ UNCHANGED <<response, updated_messages, tool_results, block_idx, outcome,
                   api_calls, dispatches, registry, registrations, inflight, last_sources, call>>

\* A model call raises: nothing in generate_response catches it.
ApiCallFails ==
    /\ pc = "loop"
    /\ LET request == IF RoundsRemain(current_round, max_rounds)
                      THEN RoundRequest(messages, tools) ELSE FinalRequest(messages)
       IN  api_calls' = Append(api_calls, Logged(request, 0, TRUE))
    /\ outcome' = ApiFailure("APIError")
    /\ pc' = "done"
    /\ UNCHANGED <<max_rounds, tools, tool_manager, messages, current_round, response,
                   updated_messages, tool_results, block_idx, dispatches, registry, registrations, inflight,
                   last_sources, call>>

\* A round's model call answers and the loop returns at once.
RoundReturnsText ==
    /\ pc = "loop"
    /\ RoundsRemain(current_round, max_rounds)
    /\ LET request == RoundRequest(messages, tools)
       IN  \E resp \in ModelResponses(request, Len(api_calls) + 1, Budget) :
            /\ ReturnsEarly(resp, tool_manager)
            /\ response' = resp
            /\ api_calls' = Append(api_calls, Logged(request, Emitted(request, resp), FALSE))
            /\ outcome' = FirstText(resp)
    /\ pc' = "done"
    /\ UNCHANGED <<max_rounds, tools, tool_manager, messages, current_round,
                   updated_messages, tool_results, block_idx, dispatches, registry, registrations, inflight,
                   last_sources, call>>

\* A round's model call answers with a tool request: enter
\* _execute_tools_and_update_messages, which appends the assistant turn.
RoundRequestsTools ==
    /\ pc = "loop"
    /\ RoundsRemain(current_round, max_rounds)
    /\ LET request == RoundRequest(messages, tools)
       IN  \E resp \in ModelResponses(request, Len(api_calls) + 1, Budget) :
            /\ ~ReturnsEarly(resp, tool_manager)
            /\ response' = resp
            /\ api_calls' = Append(api_calls, Logged(request, Emitted(request, resp), FALSE))
            /\ updated_messages' =
                   Append(messages, [role |-> "assistant", content |-> resp.content])
    /\ tool_results' = <<>>
    /\ block_idx' = 1
    /\ pc' = "tools"
    /\ UNCHANGED <<max_rounds, tools, tool_manager, messages, current_round, outcome,
                   dispatches, registry, registrations, inflight, last_sources, call>>

ToolResult(id, content) == [type |-> "tool_result", tool_use_id |-> id, content |-> content]

\* The result appended for one tool_use block, given the outcome of its dispatch.
ResultOfDispatch(block, out) ==
    IF out.raised THEN ToolResult(block.id, "Tool execution error: " \o out.value)
    ELSE ToolResult(block.id, out.value)

\* One iteration of the loop over response.content, on a tool_use block.
DispatchBlock ==
    /\ pc = "tools"
    /\ block_idx <= Len(response.content)
    /\ response.content[block_idx].type = "tool_use"
    /\ LET block == response.content[block_idx]
       IN  \E env \in LoopEnvs(block.name) :
            LET out == execute_tool(registry, last_sources, block.name, block.input, env)
            IN  /\ tool_results' = Append(tool_results, ResultOfDispatch(block, out))
                /\ last_sources' = out.last_sources
                /\ dispatches' = Append(dispatches,
                       [name |-> block.name, id |-> block.id, input |-> block.input,
                        env |-> env, round |-> current_round,
                        after_call |-> Len(api_calls), raised |-> out.raised,
                        value |-> out.value, ran |-> out.ran])
                /\ block_idx' = AfterDispatch(block_idx, out, Len(response.content))
    /\ UNCHANGED <<pc, max_rounds, tools, tool_manager, messages, current_round,
                   response, updated_messages, outcome, api_calls, registry, registrations, inflight, call>>

\* One iteration of the loop over response.content, on any other block.
SkipBlock ==
    /\ pc = "tools"
    /\ block_idx <= Len(response.content)
    /\ response.content[block_idx].type /= "tool_use"
    /\ block_idx' = block_idx + 1
    /\ UNCHANGED <<pc, max_rounds, tools, tool_manager, messages, current_round,
                   response, updated_messages, tool_results, outcome, api_calls,
                   dispatches, registry, registrations, inflight, last_sources, call>>

\* (variant: every tool result becomes a user message of its own)
WithToolResultsSeparate(updated, results) ==
    updated \o [i \in 1..Len(results) |-> [role |-> "user", content |-> <<results[i]>>]]

\* (variant: the tool results replace the history)
WithToolResultsOnly(updated, results) ==
    IF results /= <<>> THEN <<[role |-> "user", content |-> results]>>
    ELSE updated

\* The messages _execute_tools_and_update_messages returns.
WithToolResults(updated, results) ==
    IF results /= <<>> THEN Append(updated, [role |-> "user", content |-> results])
    ELSE updated

\* The loop over the blocks is over: the round ends.
FinishRound ==
    /\ pc = "tools"
    /\ block_idx > Len(response.content)
    /\ messages' = WithToolResults(updated_messages, tool_results)
    /\ current_round' = NextRound(current_round)
    /\ pc' = "loop"
    /\ UNCHANGED <<max_rounds, tools, tool_manager, response, updated_messages,
                   tool_results, block_idx, outcome, api_calls, dispatches, registry, registrations, inflight,
                   last_sources, call>>

\* _make_final_call: the rounds are exhausted.
FinalCall ==
    /\ pc = "loop"
    /\ ~RoundsRemain(current_round, max_rounds)
    /\ LET request == FinalRequest(messages)
       IN  \E resp \in ModelResponses(request, Len(api_calls) + 1, 0) :
            /\ response' = resp
            /\ api_calls' = Append(api_calls, Logged(request, 0, FALSE))
            /\ outcome' = FirstText(resp)
    /\ pc' = "done"
    /\ UNCHANGED <<max_rounds, tools, tool_manager, messages, current_round,
                   updated_messages, tool_results, block_idx, dispatches, registry, registrations, inflight,
                   last_sources, call>>

Next ==
    \/ GenerateResponse
    \/ ApiCallFails
    \/ RoundReturnsText
    \/ RoundRequestsTools
    \/ DispatchBlock
    \/ SkipBlock
    \/ FinishRound
    \/ FinalCall

Spec == Init /\ [][Next]_vars

\* Fairness: generate_response is sequential code; a step that can be taken is
\* taken (every model call and tool dispatch answers).
FairSpec == Spec /\ WF_vars(Next)

\* ------------------------------------------- the legacy _handle_tool_execution
\* The for loop of _execute_tools_and_update_messages from block idx on, as one
\* computation: envs are the storage layer's answers to the dispatches, in order.
RECURSIVE ExecuteToolBlocks(_, _, _, _, _)
ExecuteToolBlocks(content, idx, envs, reg, srcs) ==
    IF idx > Len(content)
    THEN [tool_results |-> <<>>, last_sources |-> srcs, outs |-> <<>>]
    ELSE IF content[idx].type = "tool_use"
    THEN LET out == execute_tool(reg, srcs, content[idx].name, content[idx].input,
                                 Head(envs))
             rest == ExecuteToolBlocks(content, idx + 1, Tail(envs), reg,
                                       out.last_sources)
         IN  [tool_results |-> <<ResultOfDispatch(content[idx], out)>> \o rest.tool_results,
              last_sources |-> rest.last_sources,
              outs |-> <<[id |-> content[idx].id, raised |-> out.raised,
                          value |-> out.value, ran |-> out.ran]>> \o rest.outs]
    ELSE ExecuteToolBlocks(content, idx + 1, envs, reg, srcs)

\* (variant: the tool results are not handed to the final call)
handle_tool_execution_DropsResults(initial_response, base_messages, envs, final, reg, srcs) ==
    LET updated == Append(base_messages,
                          [role |-> "assistant", content |-> initial_response.content])
        ran == ExecuteToolBlocks(initial_response.content, 1, envs, reg, srcs)
    IN  [messages |-> updated,
         request |-> FinalRequest(updated),
         outs |-> ran.outs,
         last_sources |-> ran.last_sources,
         outcome |-> IF final.failed THEN ApiFailure("APIError")
                     ELSE FirstText(final.response)]

\* _handle_tool_execution(initial_response, base_params, tool_manager): the
\* history it builds, the one request it sends, what its dispatches gave, and
\* how it ends, given the answer of the model to that request.
handle_tool_execution(initial_response, base_messages, envs, final, reg, srcs) ==
    LET updated == Append(base_messages,
                          [role |-> "assistant", content |-> initial_response.content])
        ran == ExecuteToolBlocks(initial_response.content, 1, envs, reg, srcs)
        msgs == WithToolResults(updated, ran.tool_results)
    IN  [messages |-> msgs,
         request |-> FinalRequest(msgs),
         outs |-> ran.outs,
         last_sources |-> ran.last_sources,
         outcome |-> IF final.failed THEN ApiFailure("APIError")
                     ELSE FirstText(final.response)]

\* ------------------------------------ the tools and the manager, called directly
\* No generate_response is running.
Idle ==
    /\ pc = "idle"
    /\ max_rounds = 0
    /\ tools = None
    /\ tool_manager = FALSE
    /\ messages = <<>>
    /\ current_round = 0
    /\ response = NoResponse
    /\ updated_messages = <<>>
    /\ tool_results = <<>>
    /\ block_idx = 0
    /\ outcome = NoOutcome
    /\ api_calls = <<>>
    /\ dispatches = <<>>

\* Registrations of the two tools: both orders, or the search tool only.
Registries ==
    {DefaultRegistry,
     <<DefaultRegistry[2], DefaultRegistry[1]>>,
     <<DefaultRegistry[1]>>}

ToolInit ==
    /\ Idle
    /\ registry \in Registries
    /\ registrations = RegistrationsOf(registry)
    /\ inflight = NoInflight
    /\ last_sources = [t \in ToolInstances |-> <<>>]
    /\ call = NoCall

\* Arguments of CourseSearchTool.execute: the filters are optional; a call may
\* also miss the query or carry a parameter execute does not have.
Queries == {"variables", "loops"}
CourseNameArgs == {Some(""), Some("Python")}
LessonArgs == {Some(0), Some(5)}

SearchKwargs ==
    {[query |-> t] : t \in Queries}
    \cup {[query |-> t, course_name |-> Some("Python")] : t \in Queries}
    \cup {[query |-> "variables", course_name |-> Some("")]}
    \cup {[query |-> "variables", lesson_number |-> l] : l \in LessonArgs}
    \cup {[query |-> "variables", course_name |-> c, lesson_number |-> l] :
            c \in CourseNameArgs, l \in LessonArgs}
    \cup {[course_name |-> Some("Python")], [query |-> "variables", limit |-> Some(5)]}

\* What the catalog index answers when a course name is resolved during a tool
\* call.
ResolverAnswers ==
    {[kind |-> "raise", msg |-> "index down"],
     QueryMiss,
     QueryHit("Python Basics", Some(<<<<5>>>>))}

\* What the content index gives the store.
StoreContentOutcomes == StoreSearchOutcomes(None)

\* The storage layer during one search call: a call that does not bind never
\* reaches the store; the catalog is asked only for a given course name; and
\* the content index matters only once the name is resolved.
SearchEnvs(kwargs) ==
    IF ~Binds(kwargs, {"query"}, SearchParams)
    THEN {[q |-> QueryMiss, content |-> EmptyResults]}
    ELSE IF Arg(kwargs, "course_name").some
    THEN UNION {{[q |-> q, content |-> c] :
                    c \in {x \in StoreContentOutcomes :
                             resolve_course_name(q).some
                                \/ x \in {EmptyResults, ResultsLessonAndCourse}}} :
                q \in ResolverAnswers}
    ELSE {[q |-> QueryMiss, content |-> c] : c \in StoreContentOutcomes}

\* search_tool.execute(**kwargs)
SearchExecute ==
    /\ pc = "idle"
    /\ \E kwargs \in SearchKwargs :
       \E env \in SearchEnvs(kwargs) :
        LET results == vector_store_search(Arg(kwargs, "course_name"), env.q, env.content)
            out == CourseSearchTool_execute(kwargs, results, last_sources[SearchTool])
        IN  /\ last_sources' = [last_sources EXCEPT ![SearchTool] = out.last_sources]
            /\ call' = [op |-> "search", kwargs |-> kwargs, q |-> env.q,
                        content |-> env.content, results |-> results,
                        raised |-> out.raised, ret |-> out.value,
                        before |-> last_sources]
    /\ UNCHANGED <<loopVars, registry, registrations, inflight>>

OutlineKwargs ==
    {[course_name |-> "Python"], [course_name |-> "Nonexistent"], [title |-> "Python"]}

OutlineCatalogOutcomes == ResolverAnswers \cup {QueryHit("", Some(<<<<5>>>>))}

\* The catalog during one outline call: a call that does not bind never reaches
\* it, and the entry is fetched only for a resolved title.
OutlineEnvs(kwargs) ==
    IF ~Binds(kwargs, {"course_name"}, {"course_name"})
    THEN {[q |-> QueryMiss, g |-> GetPython]}
    ELSE UNION {{[q |-> q, g |-> g] :
                    g \in {x \in CatalogGetOutcomes :
                             TruthyStr(resolve_course_name(q)) \/ x = GetPython}} :
                q \in OutlineCatalogOutcomes}

\* outline_tool.execute(**kwargs)
OutlineExecute ==
    /\ pc = "idle"
    /\ \E kwargs \in OutlineKwargs :
       \E env \in OutlineEnvs(kwargs) :
        LET out == CourseOutlineTool_execute(kwargs, env.q, env.g, last_sources[OutlineTool])
        IN  /\ last_sources' = [last_sources EXCEPT ![OutlineTool] = out.last_sources]
            /\ call' = [op |-> "outline", kwargs |-> kwargs, q |-> env.q, g |-> env.g,
                        fetched |-> (Binds(kwargs, {"course_name"}, {"course_name"})
                                        /\ OutlineFetches(env.q)),
                        raised |-> out.raised, ret |-> out.value,
                        before |-> last_sources]
    /\ UNCHANGED <<loopVars, registry, registrations, inflight>>

\* outline_tool._resolve_course_name(course_name)
ResolveCourseName ==
    /\ pc = "idle"
    /\ \E q \in CatalogQueryOutcomes :
        call' = [op |-> "resolve", q |-> q, resolved |-> resolve_course_name(q)]
    /\ UNCHANGED <<loopVars, registry, registrations, inflight, last_sources>>

\* What a get_last_sources() call leaves on record.
SourcesCall(sources) ==
    [op |-> "get_last_sources", sources |-> sources, before |-> last_sources,
     cleared |-> IF call.op = "reset_sources" THEN Some(call.before) ELSE None]

\* tool_manager.get_last_sources()
GetLastSources ==
    /\ pc = "idle"
    /\ call' = SourcesCall(get_last_sources(registry, last_sources))
    /\ UNCHANGED <<loopVars, registry, registrations, inflight, last_sources>>

\* tool_manager.reset_sources()
ResetSources ==
    /\ pc = "idle"
    /\ last_sources' = reset_sources(registry, last_sources)
    /\ call' = [op |-> "reset_sources", before |-> last_sources]
    /\ UNCHANGED <<loopVars, registry, registrations, inflight>>

ToolNext ==
    \/ SearchExecute
    \/ OutlineExecute
    \/ ResolveCourseName
    \/ GetLastSources
    \/ ResetSources

ToolSpec == ToolInit /\ [][ToolNext]_vars

\* --------------------------------------------------- one query of the service
\* The service asks with the manager's tool definitions, the manager itself and
\* the default max_rounds, and collects the sources when the answer is there.
DefaultMaxRounds == 2

\* ToolManager.get_tool_definitions()
get_tool_definitions(reg) == [k \in DOMAIN reg |-> reg[k].name]

\* What earlier queries may have left on the tools.
StaleSources ==
    {[t \in ToolInstances |-> IF t = SearchTool THEN s ELSE o] :
        s \in {<<>>, FormatSources(ResultsLessonAndCourse)},
        o \in {<<>>, <<OutlineSource("Python Basics", "https://ex.com/python")>>}}

ServiceInit ==
    /\ Idle
    /\ registry = DefaultRegistry
    /\ registrations = RegistrationsOf(registry)
    /\ inflight = NoInflight
    /\ last_sources \in StaleSources
    /\ call = NoCall

\* generate_response(query=..., tools=definitions, tool_manager=manager)
ServiceQuery ==
    /\ pc = "idle"
    /\ max_rounds' = DefaultMaxRounds
    /\ tools' = Some(get_tool_definitions(registry))
    /\ tool_manager' = TRUE
    /\ messages' = <<UserQuery>>
    /\ current_round' = 0
    /\ pc' = "loop"
    /\ UNCHANGED <<response, updated_messages, tool_results, block_idx, outcome,
                   api_calls, dispatches, registry, registrations, inflight, last_sources, call>>

\* tool_manager.get_last_sources() once generate_response has returned.
CollectSources ==
    /\ pc = "done"
    /\ outcome.kind = "returned"
    /\ call' = SourcesCall(get_last_sources(registry, last_sources))
    /\ pc' = "collected"
    /\ UNCHANGED <<max_rounds, tools, tool_manager, messages, current_round, response,
                   updated_messages, tool_results, block_idx, outcome, api_calls,
                   dispatches, registry, registrations, inflight, last_sources>>

ServiceNext ==
    \/ ResetSources
    \/ ServiceQuery
    \/ ApiCallFails
    \/ RoundReturnsText
    \/ RoundRequestsTools
    \/ DispatchBlock
    \/ SkipBlock
    \/ FinishRound
    \/ FinalCall
    \/ CollectSources

ServiceSpec == ServiceInit /\ [][ServiceNext]_vars

\* ------------------------------------------------- building the registry
\* A manager starts empty; tools are registered one call at a time, and between
\* the registrations the definitions are read and tools are run by name.
MaxRegistrations == 3

RegistryInit ==
    /\ Idle
    /\ registry = <<>>
    /\ registrations = <<>>
    /\ inflight = NoInflight
    /\ last_sources = [t \in RegistrableTools |-> <<>>]
    /\ call = NoCall

\* manager.register_tool(tool)
RegisterTool ==
    /\ pc = "idle"
    /\ Len(registrations) < MaxRegistrations
    /\ \E tool \in RegistrableTools :
          LET out == register_tool(registry, tool)
          IN  /\ registry' = out.tools
              /\ registrations' = Append(registrations,
                                         [tool |-> tool, raised |-> out.raised])
              /\ call' = [op |-> "register_tool", tool |-> tool, raised |-> out.raised,
                          value |-> out.value, before |-> registry]
    /\ UNCHANGED <<loopVars, last_sources, inflight>>

\* manager.get_tool_definitions()
GetToolDefinitions ==
    /\ pc = "idle"
    /\ call' = [op |-> "get_tool_definitions", ret |-> get_tool_definitions(registry)]
    /\ UNCHANGED <<loopVars, registry, registrations, inflight, last_sources>>

\* The names a caller asks for and what the tool of that name is given.
DispatchNames == {ToolName(SearchTool), ToolName(OutlineTool), "unknown_tool"}
DispatchKwargs(name) ==
    IF name = ToolName(OutlineTool) THEN [course_name |-> "Python"]
    ELSE [query |-> "variables"]
DispatchEnvs(name) ==
    IF name = ToolName(SearchTool)
    THEN {StoreEnv(r, QueryMiss, GetPython) : r \in {ResultsLessonAndCourse, ResultsOther}}
    ELSE {StoreEnv(EmptyResults, QueryHit("Python Basics", Some(<<<<5>>>>)), GetPython)}

\* manager.execute_tool(tool_name, **kwargs)
ExecuteTool ==
    /\ pc = "idle"
    /\ \E name \in DispatchNames : \E env \in DispatchEnvs(name) :
          LET out == execute_tool(registry, last_sources, name, DispatchKwargs(name), env)
          IN  /\ last_sources' = out.last_sources
              /\ call' = [op |-> "execute_tool", name |-> name, ran |-> out.ran,
                          raised |-> out.raised, ret |-> out.value]
    /\ UNCHANGED <<loopVars, registry, registrations, inflight>>

RegistryNext ==
    \/ RegisterTool
    \/ GetToolDefinitions
    \/ ExecuteTool

RegistrySpec == RegistryInit /\ [][RegistryNext]_vars

\* ------------------------------------------------------ the /api/query endpoint
\* QueryRequest.session_id is Optional[str]: absent, empty or an id.
RequestSessionIds == {None, Some(""), Some("s1")}

\* session_manager.create_session(): a new id, or an exception.
Fails(msg) == [kind |-> "raise", msg |-> msg]
CreateOutcomes == {Fails("session store down"), [kind |-> "ok", id |-> "session_1"]}

\* A source as rag_system.query hands it over: a dict (with or without the
\* "text" key, possibly with a text that is not a string) or a legacy string.
DictSource(text, link) == [type |-> "dict", text |-> text, link |-> link]
StrSource(text) == [type |-> "str", text |-> text]
NotAString == [some |-> TRUE, val |-> "None", str |-> FALSE]
ApiSources ==
    {DictSource(Some("Python Basics - Lesson 1"), Some("https://ex.com/python/1")),
     DictSource(None, None),
     DictSource(NotAString, None),
     StrSource("Python Basics")}
ApiSourceLists ==
    {<<>>} \cup {<<a>> : a \in ApiSources} \cup {<<a, b>> : a, b \in ApiSources}

\* rag_system.query(query, session_id): (answer, sources), or an exception.
RagOutcomes ==
    {Fails("RAG system error")}
        \cup {[kind |-> "ok", answer |-> "an answer", sources |-> l] : l \in ApiSourceLists}

ValidationMessage == "1 validation error for SourceLink"

\* The conversion of one source (lines 87-94): a SourceLink, or the validation
\* error of SourceLink(text=...) for a text that is not a string.
SourceLinkOf(source) ==
    IF source.type = "dict"
    THEN LET text == IF source.text.some THEN source.text ELSE Some("")
         IN  IF text = NotAString THEN Fails(ValidationMessage)
             ELSE [kind |-> "ok", link |-> [text |-> text.val, link |-> source.link]]
    ELSE [kind |-> "ok", link |-> [text |-> source.text, link |-> None]]

RECURSIVE SourceLinks(_)
SourceLinks(sources) ==
    IF sources = <<>> THEN [kind |-> "ok", links |-> <<>>]
    ELSE LET first == SourceLinkOf(Head(sources))
             rest == SourceLinks(Tail(sources))
         IN  IF first.kind = "raise" THEN first
             ELSE IF rest.kind = "raise" THEN rest
             ELSE [kind |-> "ok", links |-> <<first.link>> \o rest.links]

Http500(e) == [status |-> 500, detail |-> e.msg]

\* (variant: a session is created only when session_id is None)
query_documents_IsNone(session_id, created, result) ==
    IF ~session_id.some /\ created.kind = "raise" THEN Http500(created)
    ELSE IF result.kind = "raise" THEN Http500(result)
    ELSE IF SourceLinks(result.sources).kind = "raise"
    THEN Http500(SourceLinks(result.sources))
    ELSE [status |-> 200, answer |-> result.answer,
          sources |-> SourceLinks(result.sources).links,
          session_id |-> IF ~session_id.some THEN created.id ELSE session_id.val]

\* query_documents(request): the response sent.
query_documents(session_id, created, result) ==
    IF ~TruthyStr(session_id) /\ created.kind = "raise" THEN Http500(created)
    ELSE IF result.kind = "raise" THEN Http500(result)
    ELSE IF SourceLinks(result.sources).kind = "raise"
    THEN Http500(SourceLinks(result.sources))
    ELSE [status |-> 200, answer |-> result.answer,
          sources |-> SourceLinks(result.sources).links,
          session_id |-> IF ~TruthyStr(session_id) THEN created.id ELSE session_id.val]

ApiInit ==
    /\ Idle
    /\ registry = DefaultRegistry
    /\ registrations = RegistrationsOf(registry)
    /\ inflight = NoInflight
    /\ last_sources = [t \in ToolInstances |-> <<>>]
    /\ call = NoCall

\* POST /api/query
QueryDocuments ==
    /\ pc = "idle"
    /\ \E session_id \in RequestSessionIds, created \in CreateOutcomes,
          result \in RagOutcomes :
          call' = [op |-> "query_documents", session_id |-> session_id,
                   created |-> created, result |-> result,
                   response |-> query_documents(session_id, created, result)]
    /\ UNCHANGED <<loopVars, registry, registrations, inflight, last_sources>>

ApiNext == QueryDocuments

ApiSpec == ApiInit /\ [][ApiNext]_vars

\* ------------------------------------- two service queries on the same tools
\* app.py holds one RAGSystem for the process, so every query runs on the same
\* ToolManager and the same two tool instances. A query executes tools (the
\* dispatches of its generate_response), then collects the sources with
\* get_last_sources and clears them with reset_sources. The steps of the two
\* queries interleave freely.
MaxExecutions == 1

Other(q) == 3 - q
InFlight(q) == inflight[q].pc \in {"run", "collected"}
NoSources == [t \in ToolInstances |-> <<>>]

\* What the query's own tool executions would have left on tools of its own.
Started(alone) ==
    [pc |-> "run", own |-> NoSources, executed |-> 0, sources |-> None,
     expected |-> <<>>, alone |-> alone]

ConcurrentInit ==
    /\ Idle
    /\ registry = DefaultRegistry
    /\ registrations = RegistrationsOf(registry)
    /\ inflight = NoInflight
    /\ last_sources = NoSources
    /\ call = NoCall

\* rag_system.query(...) is entered; the query shares its time with the other
\* one when that is in flight.
StartQuery ==
    /\ pc = "idle"
    /\ \E q \in QueryIds :
          /\ inflight[q].pc = "idle"
          /\ inflight' =
                [inflight EXCEPT
                    ![q] = Started(~InFlight(Other(q))),
                    ![Other(q)] = IF InFlight(Other(q))
                                  THEN [@ EXCEPT !.alone = FALSE] ELSE @]
    /\ UNCHANGED <<loopVars, registry, registrations, last_sources, call>>

QueryToolNames == {ToolName(SearchTool), ToolName(OutlineTool)}
QueryEnvs(q, name) ==
    IF name = ToolName(SearchTool)
    THEN {StoreEnv(r, QueryMiss, GetPython) :
            r \in {IF q = 1 THEN ResultsLessonAndCourse ELSE ResultsOther, EmptyResults}}
    ELSE {StoreEnv(EmptyResults, QueryHit("Python Basics", Some(<<<<5>>>>)), GetPython)}

\* A dispatch of the query's generate_response: tool_manager.execute_tool.
QueryExecutes ==
    /\ pc = "idle"
    /\ \E q \in QueryIds :
          /\ inflight[q].pc = "run"
          /\ inflight[q].executed < MaxExecutions
          /\ \E name \in QueryToolNames : \E env \in QueryEnvs(q, name) :
                LET out == execute_tool(registry, last_sources, name,
                                        DispatchKwargs(name), env)
                    mine == execute_tool(registry, inflight[q].own, name,
                                         DispatchKwargs(name), env)
                IN  /\ last_sources' = out.last_sources
                    /\ inflight' = [inflight EXCEPT
                                       ![q].own = mine.last_sources,
                                       ![q].executed = @ + 1]
    /\ UNCHANGED <<loopVars, registry, registrations, call>>

\* sources = tool_manager.get_last_sources()
QueryCollects ==
    /\ pc = "idle"
    /\ \E q \in QueryIds :
          /\ inflight[q].pc = "run"
          /\ inflight' = [inflight EXCEPT
                             ![q].pc = "collected",
                             ![q].sources = Some(get_last_sources(registry, last_sources)),
                             ![q].expected = get_last_sources(registry, inflight[q].own)]
    /\ UNCHANGED <<loopVars, registry, registrations, last_sources, call>>

\* tool_manager.reset_sources(), and the query returns (answer, sources).
QueryClears ==
    /\ pc = "idle"
    /\ \E q \in QueryIds :
          /\ inflight[q].pc = "collected"
          /\ last_sources' = reset_sources(registry, last_sources)
          /\ inflight' = [inflight EXCEPT
                             ![q].pc = "done",
                             ![q].own = reset_sources(registry, inflight[q].own)]
    /\ UNCHANGED <<loopVars, registry, registrations, call>>

ConcurrentNext ==
    \/ StartQuery
    \/ QueryExecutes
    \/ QueryCollects
    \/ QueryClears

ConcurrentSpec == ConcurrentInit /\ [][ConcurrentNext]_vars

\* ===================================================================== claims
Max0(n) == IF n < 0 THEN 0 ELSE n
LastCall == api_calls[Len(api_calls)]
ToolBearingCalls == Cardinality({i \in DOMAIN api_calls : api_calls[i].tools.some})
FinalCalls == Cardinality({i \in DOMAIN api_calls : api_calls[i].final})
IsToolUse(block) == block.type = "tool_use"
ToolUseBlocks(content) == SelectSeq(content, IsToolUse)
HasText(resp) == Len(resp.content) > 0 /\ "text" \in DOMAIN resp.content[1]
\* The dispatches made since the latest model call.
InThisRound(d) == d.after_call = Len(api_calls)
RoundDispatches == SelectSeq(dispatches, InThisRound)

\* C1 (as stated): for every max_rounds = N, a finished query has issued at most
\* N model calls that carry tool schemas and at most N+1 model calls in all, and
\* when all N rounds ended in a tool request exactly one more, tool-free call.
C1_Original ==
    pc = "done" =>
        /\ ToolBearingCalls <= max_rounds
        /\ Len(api_calls) <= max_rounds + 1
        /\ current_round = max_rounds =>
              /\ Len(api_calls) = max_rounds + 1
              /\ LastCall.final /\ ~LastCall.tools.some
              /\ FinalCalls = 1

\* C1 (amended): with N counted as 0 when it is negative, a query issues at most
\* N model calls that carry tool schemas and at most N+1 model calls in all; when
\* every round ended in a tool request (the loop ran out of rounds) exactly one
\* more call is made, and it carries no tools.
C1_RoundBound ==
    pc /= "idle" =>
        /\ ToolBearingCalls <= Max0(max_rounds)
        /\ Len(api_calls) - FinalCalls <= Max0(max_rounds)
        /\ Len(api_calls) <= Max0(max_rounds) + 1
        /\ FinalCalls <= 1
        /\ (pc = "done" /\ current_round >= max_rounds) =>
              /\ Len(api_calls) = Max0(max_rounds) + 1
              /\ LastCall.final /\ ~LastCall.tools.some
              /\ FinalCalls = 1

C1_Witness ==
    /\ pc = "done" /\ max_rounds = 2 /\ current_round = 2
    /\ ToolBearingCalls = 2 /\ Len(api_calls) = 3 /\ LastCall.final

\* C2: when the round counter has reached max_rounds, the next model call gets
\* the whole accumulated history, carries no tool schemas and no tool choice,
\* and unless it fails its text is returned whatever its stop reason; it is the
\* last step of the query: no tool dispatch and no model call follows it.
C2_ForcedFinalCall ==
    [][ /\ (pc = "loop" /\ current_round >= max_rounds) =>
              /\ Len(api_calls') = Len(api_calls) + 1
              /\ api_calls'[Len(api_calls')].final
              /\ api_calls'[Len(api_calls')].messages = messages
              /\ api_calls'[Len(api_calls')].tools = None
              /\ api_calls'[Len(api_calls')].tool_choice = None
              /\ dispatches' = dispatches
              /\ pc' = "done"
              /\ ~api_calls'[Len(api_calls')].failed =>
                    /\ HasText(response')
                    /\ outcome' = [kind |-> "returned", value |-> response'.content[1].text]
        /\ pc = "done" => vars' = vars
      ]_vars

C2_Witness ==
    /\ pc = "done" /\ max_rounds = 2 /\ Len(api_calls) = 3 /\ LastCall.final
    /\ Len(dispatches) = 2
    /\ response.stop_reason = "tool_use"
    /\ outcome = [kind |-> "returned", value |-> "text of response 3"]

\* C3 (as stated): when a round's model call answers and the response does not
\* request a tool, or no tool manager is configured, generate_response ends at
\* once and returns the text of that response; no tool is dispatched.
C3_Original ==
    [][ ( /\ pc = "loop" /\ current_round < max_rounds
          /\ Len(api_calls') = Len(api_calls) + 1
          /\ ~api_calls'[Len(api_calls')].failed
          /\ (response'.stop_reason /= "tool_use" \/ ~tool_manager) ) =>
            /\ pc' = "done"
            /\ dispatches' = dispatches
            /\ HasText(response')
            /\ outcome' = [kind |-> "returned", value |-> response'.content[1].text]
      ]_vars

\* C4: while a round's tool calls are executed, every tool_use block passed so
\* far has been dispatched exactly once, in order, whether or not an earlier
\* dispatch raised; a dispatch that raised contributes the result
\* 'Tool execution error: <message>', every other one its returned string; and
\* no exception of a tool ends generate_response.
C4_FaultIsolation ==
    /\ pc = "tools" =>
         LET passed == ToolUseBlocks(SubSeq(response.content, 1, block_idx - 1))
             disp == RoundDispatches
         IN  /\ block_idx <= Len(response.content) + 1
             /\ Len(disp) = Len(passed)
             /\ Len(tool_results) = Len(passed)
             /\ \A i \in 1..Len(passed) :
                   /\ disp[i].id = passed[i].id
                   /\ disp[i].name = passed[i].name
                   /\ tool_results[i].tool_use_id = passed[i].id
                   /\ tool_results[i].content =
                         IF disp[i].raised
                         THEN "Tool execution error: " \o disp[i].value
                         ELSE disp[i].value
    /\ \A i \in DOMAIN dispatches :
         (dispatches[i].raised /\ outcome.kind = "raised") =>
             outcome.value /= dispatches[i].value

C4_Witness ==
    /\ pc = "tools" /\ block_idx > Len(response.content)
    /\ Len(ToolUseBlocks(response.content)) = 2
    /\ Len(RoundDispatches) = 2
    /\ RoundDispatches[1].raised /\ ~RoundDispatches[2].raised
    /\ tool_results[1].content = "Tool execution error: store unavailable"
    /\ tool_results[2].content = "No course found matching 'Python'"

\* C5: when a tool round ends, its tool results are in one single user message
\* appended after the assistant turn: it holds exactly one result per tool_use
\* block of the response, in the order of the blocks, the i-th result with the
\* id of the i-th tool_use block and the outcome of its dispatch. (A response
\* without any tool_use block has no result, and no message is appended for it.)
C5_ResultsInOneMessage ==
    [][ (pc = "tools" /\ pc' = "loop") =>
          LET calls == ToolUseBlocks(response.content)
              base == Append(messages, [role |-> "assistant", content |-> response.content])
              added == SubSeq(messages', Len(base) + 1, Len(messages'))
          IN  /\ SubSeq(messages', 1, Len(base)) = base
              /\ Len(added) <= 1
              /\ (calls = <<>>) = (added = <<>>)
              /\ calls /= <<>> =>
                    /\ added[1].role = "user"
                    /\ Len(added[1].content) = Len(calls)
                    /\ \A i \in 1..Len(calls) :
                          /\ added[1].content[i].type = "tool_result"
                          /\ added[1].content[i].tool_use_id = calls[i].id
                          /\ added[1].content[i].content =
                                IF RoundDispatches[i].raised
                                THEN "Tool execution error: " \o RoundDispatches[i].value
                                ELSE RoundDispatches[i].value
      ]_vars

C5_Witness ==
    /\ pc = "loop" /\ current_round = 1 /\ Len(messages) = 3
    /\ messages[3].role = "user"
    /\ Len(messages[3].content) = 2
    /\ messages[3].content[1].tool_use_id = "toolu_1_1"
    /\ messages[3].content[2].tool_use_id = "toolu_1_3"

\* C6 (as stated): whenever a model call is about to be made, the history
\* starts with the user's query, has 1 + 2k messages after k completed tool
\* rounds, and its roles alternate user, assistant, ..., user.
C6_Original ==
    pc = "loop" =>
        /\ messages[1] = UserQuery
        /\ Len(messages) = 1 + 2 * current_round
        /\ \A i \in DOMAIN messages :
              messages[i].role = IF i % 2 = 1 THEN "user" ELSE "assistant"

\* Steps generate_response can still take before it ends, at most.
RoundWeight == MaxBlocks + 3
Rank ==
    IF pc = "idle" THEN (MaxRounds + 1) * RoundWeight + 2
    ELSE IF pc = "loop" THEN Max0(max_rounds - current_round) * RoundWeight + 1
    ELSE IF pc = "tools"
    THEN (Max0(max_rounds - current_round) - 1) * RoundWeight + 2
            + (Len(response.content) + 1 - block_idx)
    ELSE 0

\* C7: generate_response ends for every behaviour of the model, also one that
\* requests a tool in every response: every step brings it closer to its end (a
\* natural number that bounds the steps left decreases), and once called it
\* eventually is done.
C7_Terminates ==
    /\ [][Rank' < Rank /\ Rank' >= 0]_vars
    /\ (pc = "loop") ~> (pc = "done")

C7_Witness ==
    /\ pc = "done" /\ max_rounds = 2 /\ current_round = 2
    /\ \A i \in DOMAIN api_calls : ~api_calls[i].failed
    /\ Len(dispatches) = 3
    /\ response.stop_reason = "tool_use"
    /\ outcome.kind = "returned"

\* C8: a model call that fails is the last thing the query does: it ends
\* generate_response with the exception, no text is returned, and no model call
\* and no tool dispatch comes after the failing call.
C8_ModelFailurePropagates ==
    \A i \in DOMAIN api_calls :
        api_calls[i].failed =>
            /\ i = Len(api_calls)
            /\ pc = "done"
            /\ outcome = [kind |-> "raised", value |-> "APIError"]
            /\ \A j \in DOMAIN dispatches : dispatches[j].after_call < i

C8_Witness ==
    /\ pc = "done" /\ Len(api_calls) = 2 /\ LastCall.failed /\ ~LastCall.final
    /\ Len(dispatches) = 1
    /\ outcome.kind = "raised"

C8_WitnessFinal ==
    /\ pc = "done" /\ Len(api_calls) = 3 /\ LastCall.failed /\ LastCall.final

\* C9: dispatching a name that is not registered returns "Tool '<name>' not
\* found" without raising, runs no tool and leaves every tool's last_sources as
\* it was; in the loop that string becomes the tool result of the call like any
\* returned string, the loop goes on, and the round is counted: the round
\* counter grows by one when the round ends.
C9_UnknownTool ==
    [][ /\ ( /\ Len(dispatches') = Len(dispatches) + 1
             /\ \A k \in DOMAIN registry :
                    registry[k].name /= dispatches'[Len(dispatches')].name ) =>
              LET d == dispatches'[Len(dispatches')]
              IN  /\ ~d.raised
                  /\ d.value = "Tool '" \o d.name \o "' not found"
                  /\ d.ran = "none"
                  /\ last_sources' = last_sources
                  /\ tool_results' = Append(tool_results,
                         [type |-> "tool_result", tool_use_id |-> d.id,
                          content |-> "Tool '" \o d.name \o "' not found"])
                  /\ pc' = "tools"
        /\ (pc = "tools" /\ pc' = "loop") =>
              /\ current_round' = current_round + 1
              /\ tool_results /= <<>> =>
                    messages'[Len(messages')] = [role |-> "user", content |-> tool_results]
      ]_vars

C9_Witness ==
    /\ pc = "loop" /\ current_round = 1 /\ Len(messages) = 3
    /\ Len(dispatches) = 1 /\ dispatches[1].ran = "none"
    /\ messages[3].content[1].content = "Tool 'summarize' not found"
    /\ last_sources = [t \in ToolInstances |-> <<>>]

\* The provenance records one execute() call produces: what it leaves on a tool
\* that held none.
ProducedBy(d) == ToolExecute(d.ran, d.input, d.env, <<>>).last_sources
ExecutedBefore(tool) == \E j \in DOMAIN dispatches : dispatches[j].ran = tool

\* C10 (as stated): after a second (or later) execute() on a tool instance,
\* whatever the outcome of the calls, the tool's last_sources holds exactly the
\* records the latest call produced and none of an earlier call.
C10_Original ==
    [][ ( /\ Len(dispatches') = Len(dispatches) + 1
          /\ dispatches'[Len(dispatches')].ran /= "none"
          /\ ExecutedBefore(dispatches'[Len(dispatches')].ran) ) =>
            LET d == dispatches'[Len(dispatches')]
            IN  last_sources'[d.ran] = ProducedBy(d)
      ]_vars

Registered(tool) == \E k \in DOMAIN registry : registry[k].tool = tool

\* C11: right after reset_sources() every registered tool's last_sources is
\* empty, whatever the tools had executed before and in whatever order, and a
\* get_last_sources() that follows it returns the empty list.
C11_ResetClearsAll ==
    /\ call.op = "reset_sources" =>
          \A t \in ToolInstances : Registered(t) => last_sources[t] = <<>>
    /\ (call.op = "get_last_sources" /\ call.cleared.some) => call.sources = <<>>

C11_Witness ==
    /\ call.op = "reset_sources" /\ Len(registry) = 2
    /\ \A t \in ToolInstances : call.before[t] /= <<>> /\ last_sources[t] = <<>>

\* C12: when the sources were reset before the query started and the loop of
\* the query dispatched no tool, the sources collected after the loop are
\* empty, whatever earlier queries had left on the tools.
C12_NoLeakAfterClear ==
    (pc = "collected" /\ call.cleared.some /\ dispatches = <<>>) => call.sources = <<>>

C12_Witness ==
    /\ pc = "collected" /\ dispatches = <<>> /\ outcome.kind = "returned"
    /\ call.cleared.some
    /\ \A t \in ToolInstances : call.cleared.val[t] /= <<>>
    /\ call.sources = <<>>

\* Positions in the registry of the tools that hold sources.
WithSources(reg, srcs) == {k \in DOMAIN reg : srcs[reg[k].tool] /= <<>>}

\* C13: get_last_sources() returns the last_sources of the first tool, in
\* registration order, that holds any, and the empty list when no registered
\* tool does; what it returns is the list of one tool, never a merge; and it
\* leaves every tool's last_sources as it was.
C13_FirstNonEmpty ==
    call.op = "get_last_sources" =>
        LET holders == WithSources(registry, call.before)
        IN  /\ last_sources = call.before
            /\ holders = {} => call.sources = <<>>
            /\ \A k \in holders :
                  (\A j \in holders : k <= j) =>
                      call.sources = call.before[registry[k].tool]

C13_Witness ==
    /\ call.op = "get_last_sources"
    /\ registry = <<DefaultRegistry[2], DefaultRegistry[1]>>
    /\ call.before[SearchTool] /= <<>> /\ call.before[OutlineTool] /= <<>>
    /\ call.sources = call.before[OutlineTool]
    /\ call.sources /= call.before[SearchTool]

\* The index answered with a top result that has a title and a distance.
IsHit(q) ==
    /\ q.kind = "ok"
    /\ Len(q.documents) > 0 /\ q.documents[1] /= <<>>
    /\ Len(q.metadatas) > 0 /\ q.metadatas[1] /= <<>>
    /\ "title" \in DOMAIN q.metadatas[1][1]
    /\ "distances" \in DOMAIN q
    /\ TruthySeq(q.distances) /\ q.distances.val[1] /= <<>>
TopDistance(q) == q.distances.val[1][1]
TopTitle(q) == q.metadatas[1][1].title
\* The index answered with no result.
NoResult(q) == q.kind = "ok" /\ Len(q.documents) > 0 /\ q.documents[1] = <<>>

\* C14: the resolver returns no-match when the index returns no result or the
\* top result's distance is greater than the threshold, and the top result's
\* title when its distance is below the threshold.
C14_ResolverThreshold ==
    call.op = "resolve" =>
        /\ NoResult(call.q) => call.resolved = None
        /\ (IsHit(call.q) /\ TopDistance(call.q) > Threshold) => call.resolved = None
        /\ (IsHit(call.q) /\ TopDistance(call.q) < Threshold) =>
              call.resolved = Some(TopTitle(call.q))

C14_Witness ==
    /\ call.op = "resolve" /\ IsHit(call.q)
    /\ TopDistance(call.q) = Threshold - 1
    /\ call.resolved = Some("MCP Intro")

\* C15 (as stated): when the top result's distance is exactly the threshold the
\* resolver returns no-match.
C15_Original ==
    (call.op = "resolve" /\ IsHit(call.q) /\ TopDistance(call.q) = Threshold) =>
        call.resolved = None

\* C15 (amended): when the top result's distance is exactly the threshold the
\* resolver returns the top result's title: only a distance strictly greater
\* than the threshold is rejected.
C15_AtThreshold ==
    (call.op = "resolve" /\ IsHit(call.q) /\ TopDistance(call.q) = Threshold) =>
        call.resolved = Some(TopTitle(call.q))

C15_Witness ==
    /\ call.op = "resolve" /\ IsHit(call.q)
    /\ TopDistance(call.q) = Threshold
    /\ call.resolved = Some("Python Basics")

\* The index raised, or its response lacks something the resolver reads.
IndexError(q) ==
    \/ q.kind = "raise"
    \/ /\ q.kind = "ok"
       /\ \/ Len(q.documents) = 0
          \/ q.documents[1] /= <<>> /\ Len(q.metadatas) = 0
          \/ /\ q.documents[1] /= <<>> /\ Len(q.metadatas) > 0 /\ q.metadatas[1] /= <<>>
             /\ \/ "distances" \notin DOMAIN q
                \/ "title" \notin DOMAIN q.metadatas[1][1]

\* C16: the resolver never raises: it ends with no-match or a title for every
\* answer of the index, and with no-match when the index raised or its response
\* is malformed or incomplete.
C16_ResolverNeverRaises ==
    call.op = "resolve" =>
        /\ "raised" \notin DOMAIN call.resolved
        /\ IndexError(call.q) => call.resolved = None

C16_Witness ==
    /\ call.op = "resolve" /\ call.q.kind = "ok"
    /\ call.q.documents = <<<<"doc">>>> /\ call.q.metadatas = <<>>
    /\ call.resolved = None

\* A search call whose arguments bound to execute's parameters.
SearchBound == call.op = "search" /\ Binds(call.kwargs, {"query"}, SearchParams)
CourseGiven == "course_name" \in DOMAIN call.kwargs
LessonGiven == "lesson_number" \in DOMAIN call.kwargs

GotResults == SearchBound /\ call.results.kind = "results"

\* C18: when the result set of the store carries an error, execute returns
\* exactly that error string, and formats nothing: the tool's last_sources
\* stays as it was.
C18_ErrorVerbatim ==
    (GotResults /\ TruthyStr(call.results.error)) =>
        /\ ~call.raised
        /\ call.ret = call.results.error.val
        /\ last_sources = call.before

C18_Witness ==
    /\ GotResults
    /\ call.results.error = Some("Search error: index down")
    /\ call.ret = "Search error: index down"
    /\ call.before[SearchTool] /= <<>>
    /\ last_sources = call.before

\* C19 (as stated): for an empty result set without error, execute returns
\* 'No relevant content found', then " in course '<name>'" exactly when a
\* course_name was supplied, then ' in lesson <n>' exactly when a lesson_number
\* was supplied (whatever its value, 0 included), then '.'.
C19_Original ==
    (GotResults /\ ~call.results.error.some /\ is_empty(call.results)) =>
        call.ret = "No relevant content found"
            \o (IF CourseGiven
                THEN " in course '" \o call.kwargs.course_name.val \o "'" ELSE "")
            \o (IF LessonGiven
                THEN " in lesson " \o ToString(call.kwargs.lesson_number.val) ELSE "")
            \o "."

\* The header of a block, and the blocks joined, as the claim words them.
StatedHeader(meta) ==
    "[" \o (IF meta.course_title.some THEN meta.course_title.val ELSE "unknown")
        \o (IF meta.lesson_number.some
            THEN " - Lesson " \o ToString(meta.lesson_number.val) ELSE "")
        \o "]"

RECURSIVE StatedOutput(_, _, _)
StatedOutput(results, i, gap) ==
    IF i > Len(results.documents) THEN ""
    ELSE (IF i > 1 THEN "\n\n" ELSE "")
            \o StatedHeader(results.metadata[i]) \o gap \o results.documents[i]
            \o StatedOutput(results, i + 1, gap)

Formatted == GotResults /\ ~call.results.error.some /\ ~is_empty(call.results)

\* C20 (as stated): for a non-empty result set the output is one block per
\* (document, metadata) pair in order, each the header '[<title>', ' - Lesson
\* <n>' when there is a lesson number, ']', then a blank line and the document;
\* the blocks are joined by double newlines.
C20_Original ==
    Formatted => call.ret = StatedOutput(call.results, 1, "\n\n")

\* C20 (amended): as stated, but the header is followed by a single newline (no
\* blank line) and the document; the title reads 'unknown' when the metadata
\* has none.
C20_Blocks ==
    Formatted => ~call.raised /\ call.ret = StatedOutput(call.results, 1, "\n")

C20_Witness ==
    /\ Formatted
    /\ call.results = ResultsLessonAndCourse
    /\ call.ret = "[Python Basics - Lesson 1]\ndoc one\n\n[Python Basics]\ndoc two"

\* The record the claim words for one result.
StatedSource(meta) ==
    LET title == IF meta.course_title.some THEN meta.course_title.val ELSE "unknown"
    IN  [text |-> title \o (IF meta.lesson_number.some
                            THEN " - Lesson " \o ToString(meta.lesson_number.val)
                            ELSE ""),
         link |-> IF meta.lesson_number.some
                  THEN get_lesson_link(title, meta.lesson_number.val)
                  ELSE IF meta.course_title.some THEN get_course_link(title)
                  ELSE None]

\* C21: for a non-empty result set the search tool records exactly one source
\* per result, in result order: its text is the course title, with ' - Lesson
\* <n>' appended exactly when the result has a lesson number; its link is the
\* lesson's link when the result has a lesson number (null when that lesson has
\* none), else the course's link, else null.
C21_SourcesPerResult ==
    Formatted =>
        /\ Len(last_sources[SearchTool]) = Len(call.results.documents)
        /\ \A i \in 1..Len(call.results.documents) :
              last_sources[SearchTool][i] = StatedSource(call.results.metadata[i])

C21_Witness ==
    /\ Formatted /\ call.results = ResultsLessonAndCourse
    /\ call.before[SearchTool] =
          <<[text |-> "MCP Intro - Lesson 0", link |-> None]>>
    /\ last_sources[SearchTool] =
          <<[text |-> "Python Basics - Lesson 1", link |-> Some("https://ex.com/python/1")],
            [text |-> "Python Basics", link |-> Some("https://ex.com/python")]>>

\* An outline call whose arguments bound to execute's parameter.
OutlineBound == call.op = "outline" /\ Binds(call.kwargs, {"course_name"}, {"course_name"})
\* The catalog entry the call was given, when it holds one.
HasEntry == call.g.kind = "ok" /\ TruthySeq(call.g.metadatas)
Entry == call.g.metadatas.val[1]
ParsesOk == ~Entry.lessons_json.some \/ Entry.lessons_json.val.valid
\* The call got through to the rendering of the outline.
OutlineSucceeds == OutlineBound /\ call.fetched /\ HasEntry /\ ParsesOk

\* C22: when the resolver finds no match for course_name, execute returns
\* exactly "No course found matching '<course_name>'": a string, no exception;
\* no catalog entry is fetched, no course structure is returned and no source is
\* recorded, whatever the catalog holds.
C22_OutlineNoCourse ==
    (OutlineBound /\ ~resolve_course_name(call.q).some) =>
        /\ ~call.raised
        /\ ~call.fetched
        /\ call.ret = "No course found matching '" \o call.kwargs.course_name \o "'"
        /\ last_sources = call.before

C22_Witness ==
    /\ OutlineBound /\ call.q = QueryMiss /\ call.g = GetPython
    /\ call.kwargs.course_name = "Nonexistent"
    /\ call.ret = "No course found matching 'Nonexistent'"

\* C23: execute(course_name) never raises: an exception of the catalog fetch or
\* of the parsing of the lesson list comes back as the string 'Error retrieving
\* course outline: <message>', and a missing or empty catalog entry as 'Could
\* not retrieve outline for course '<course_name>''.
C23_OutlineNeverRaises ==
    OutlineBound =>
        /\ ~call.raised
        /\ (call.fetched /\ call.g.kind = "raise") =>
              call.ret = "Error retrieving course outline: " \o call.g.msg
        /\ (call.fetched /\ HasEntry /\ ~ParsesOk) =>
              call.ret = "Error retrieving course outline: "
                            \o "Expecting value: line 1 column 1 (char 0)"
        /\ (call.fetched /\ call.g.kind /= "raise" /\ ~HasEntry) =>
              call.ret = "Could not retrieve outline for course '"
                            \o call.kwargs.course_name \o "'"
        /\ (call.fetched /\ ~OutlineSucceeds) => last_sources = call.before

C23_Witness ==
    /\ OutlineBound /\ call.fetched /\ HasEntry /\ ~ParsesOk
    /\ call.ret = "Error retrieving course outline: Expecting value: line 1 column 1 (char 0)"

\* The lines the claim words, for the stored entry.
StoredTitle == IF Entry.title.some THEN Entry.title.val ELSE "Unknown Course"
StoredLink == IF Entry.course_link.some THEN Entry.course_link.val ELSE ""
StoredInstructor == IF Entry.instructor.some THEN Entry.instructor.val ELSE ""
StoredLessons == IF Entry.lessons_json.some THEN Entry.lessons_json.val.value ELSE <<>>

RECURSIVE StatedLessonLines(_, _)
StatedLessonLines(lessons, i) ==
    IF i > Len(lessons) THEN ""
    ELSE "\n  - Lesson "
            \o ToString(IF lessons[i].lesson_number.some
                        THEN lessons[i].lesson_number.val ELSE 0)
            \o ": "
            \o (IF lessons[i].lesson_title.some
                THEN lessons[i].lesson_title.val ELSE "Untitled")
            \o StatedLessonLines(lessons, i + 1)

StatedOutline ==
    "**Course Title:** " \o StoredTitle
        \o (IF StoredLink /= "" THEN "\n**Course Link:** " \o StoredLink ELSE "")
        \o (IF StoredInstructor /= "" THEN "\n**Instructor:** " \o StoredInstructor ELSE "")
        \o "\n**Total Lessons:** " \o ToString(Len(StoredLessons))
        \o "\n\n**Lessons:**"
        \o StatedLessonLines(StoredLessons, 1)

\* C24: on success the outline is, in this order: the course title line, the
\* course link line exactly when the link is not empty, the instructor line
\* exactly when the instructor is not empty, the total-lessons line with the
\* number of stored lessons, the 'Lessons:' header, and one 'Lesson <n>:
\* <title>' line per stored lesson in stored order; with 0 lessons it holds
\* '**Total Lessons:** 0' and ends with the header.
C24_OutlineRendering ==
    OutlineSucceeds => call.ret = StatedOutline

C24_Witness ==
    /\ OutlineSucceeds /\ StoredLessons = <<>> /\ StoredLink = "" /\ ~Entry.instructor.some
    /\ call.ret = "**Course Title:** MCP Intro\n**Total Lessons:** 0\n\n**Lessons:**"

\* C25: every successful execute leaves the tool's last_sources holding exactly
\* one record: its text is '<course title> - Course Outline' and its link the
\* course link, or null when the course link is empty.
C25_OutlineSource ==
    OutlineSucceeds =>
        last_sources[OutlineTool] =
            <<[text |-> StoredTitle \o " - Course Outline",
               link |-> IF StoredLink /= "" THEN Some(StoredLink) ELSE None]>>

C25_Witness ==
    /\ OutlineSucceeds /\ Entry.course_link = Some("")
    /\ call.before[OutlineTool] =
          <<[text |-> "Python Basics - Course Outline", link |-> Some("https://ex.com/python")]>>
    /\ last_sources[OutlineTool] = <<[text |-> "MCP Intro - Course Outline", link |-> None]>>

\* The register_tool calls that went through, in call order.
Accepted == SelectSeq(registrations, LAMBDA e : ~e.raised)
\* The last accepted registration under a name (0: none).
LastAccepted(name) ==
    LET at == {i \in DOMAIN Accepted : ToolName(Accepted[i].tool) = name}
    IN  IF at = {} THEN 0 ELSE CHOOSE i \in at : \A j \in at : j <= i
HasNoName(tool) == tool \in {NamelessTool, EmptyNameTool}

\* C26: register_tool of a tool whose definition has no name, or an empty one,
\* raises the configuration error and leaves the registry as it was; a
\* registration under a name already present replaces the earlier tool: the
\* registry never holds two tools of one name, and execute_tool(name) runs the
\* tool most recently registered under that name.
C26_RegisterTool ==
    /\ \A i \in DOMAIN registrations :
          registrations[i].raised <=> HasNoName(registrations[i].tool)
    /\ (call.op = "register_tool" /\ HasNoName(call.tool)) =>
          /\ call.raised /\ call.value = "Tool must have a 'name' in its definition"
          /\ registry = call.before
    /\ \A i, j \in DOMAIN registry : registry[i].name = registry[j].name => i = j
    /\ \A k \in DOMAIN registry :
          /\ LastAccepted(registry[k].name) /= 0
          /\ registry[k].tool = Accepted[LastAccepted(registry[k].name)].tool
    /\ \A i \in DOMAIN Accepted : IndexOf(registry, ToolName(Accepted[i].tool)) /= 0
    /\ (call.op = "execute_tool" /\ LastAccepted(call.name) /= 0) =>
          call.ran = Accepted[LastAccepted(call.name)].tool

C26_Witness ==
    /\ registrations = <<[tool |-> SearchTool, raised |-> FALSE],
                         [tool |-> NamelessTool, raised |-> TRUE],
                         [tool |-> SearchTool2, raised |-> FALSE]>>
    /\ registry = <<[name |-> "search_course_content", tool |-> SearchTool2]>>
    /\ call.op = "execute_tool" /\ call.name = "search_course_content"
    /\ call.ran = SearchTool2
    /\ last_sources[SearchTool2] /= <<>> /\ last_sources[SearchTool] = <<>>

\* The names of the accepted registrations, each at its first registration.
RECURSIVE FirstRegistered(_)
FirstRegistered(log) ==
    IF log = <<>> THEN <<>>
    ELSE LET before == FirstRegistered(SubSeq(log, 1, Len(log) - 1))
             name == ToolName(log[Len(log)].tool)
         IN  IF \E i \in DOMAIN before : before[i] = name THEN before
             ELSE Append(before, name)

\* C27: after any sequence of register_tool calls, get_tool_definitions returns
\* exactly one schema per registered name, in the order in which the names were
\* registered (a name registered again keeps the place of its first
\* registration).
C27_DefinitionsInOrder ==
    /\ get_tool_definitions(registry) = FirstRegistered(Accepted)
    /\ call.op = "get_tool_definitions" => call.ret = FirstRegistered(Accepted)

C27_Witness ==
    /\ call.op = "get_tool_definitions"
    /\ Accepted = <<[tool |-> SearchTool, raised |-> FALSE],
                    [tool |-> OutlineTool, raised |-> FALSE],
                    [tool |-> SearchTool2, raised |-> FALSE]>>
    /\ call.ret = <<"search_course_content", "get_course_outline">>

\* The exception a request runs into, in the order the handler works: session
\* creation (only when a session is created), the query, the conversion.
Creates == ~TruthyStr(call.session_id)
Failure ==
    IF Creates /\ call.created.kind = "raise" THEN Some(call.created.msg)
    ELSE IF call.result.kind = "raise" THEN Some(call.result.msg)
    ELSE IF \E i \in DOMAIN call.result.sources :
                call.result.sources[i].type = "dict"
                    /\ call.result.sources[i].text = NotAString
    THEN Some(ValidationMessage)
    ELSE None

\* C28 as stated: on success a supplied session_id (any value other than an
\* absent one) comes back in the response.
C28_Original ==
    (call.op = "query_documents" /\ call.response.status = 200
        /\ call.session_id.some) =>
            call.response.session_id = call.session_id.val

\* C28 (amended): every exception raised while a query is processed (session
\* creation, the query, source conversion) gives an HTTP 500 response whose
\* detail is the exception's message, and nothing else does; on success the
\* response's session_id is the request's when that is a non-empty string, and
\* the newly created id when the request's is absent or empty.
C28_Endpoint ==
    call.op = "query_documents" =>
        /\ Failure.some => call.response = [status |-> 500, detail |-> Failure.val]
        /\ ~Failure.some =>
              /\ call.response.status = 200
              /\ call.response.answer = call.result.answer
              /\ Len(call.response.sources) = Len(call.result.sources)
              /\ call.response.session_id =
                    IF call.session_id.some /\ call.session_id.val /= ""
                    THEN call.session_id.val
                    ELSE call.created.id

C28_Witness ==
    /\ call.op = "query_documents"
    /\ call.session_id = Some("")
    /\ call.response.status = 200
    /\ call.response.session_id = "session_1"
    /\ call.response.sources =
          <<[text |-> "Python Basics", link |-> None],
            [text |-> "", link |-> None]>>

\* C29: within one query the loop is strictly sequential. A tool is dispatched
\* only while the round's model call has returned and no further model call has
\* been issued: the dispatch belongs to the current round r, whose call is call
\* number r + 1, the latest one, and it did not fail. A model call is issued
\* only when no dispatch is outstanding: every tool_use block of the previous
\* round's response has been dispatched, in that round. No step both dispatches
\* and calls the model.
C29_Sequential ==
    [][ /\ (dispatches' /= dispatches) =>
              LET d == dispatches'[Len(dispatches')]
              IN  /\ pc = "tools" /\ api_calls' = api_calls
                  /\ Len(dispatches') = Len(dispatches) + 1
                  /\ d.round = current_round
                  /\ d.after_call = current_round + 1
                  /\ d.after_call = Len(api_calls)
                  /\ ~api_calls[d.after_call].failed /\ ~api_calls[d.after_call].final
                  /\ \E k \in DOMAIN ToolUseBlocks(response.content) :
                        ToolUseBlocks(response.content)[k].id = d.id
                  /\ \A j \in DOMAIN dispatches : dispatches[j].round <= d.round
        /\ (api_calls' /= api_calls) =>
              /\ pc = "loop" /\ dispatches' = dispatches
              /\ Len(api_calls') = Len(api_calls) + 1
              /\ Len(api_calls) = current_round
              /\ current_round >= 1 =>
                    LET blocks == ToolUseBlocks(response.content)
                    IN  \A i \in DOMAIN blocks :
                            \E j \in DOMAIN dispatches :
                                /\ dispatches[j].id = blocks[i].id
                                /\ dispatches[j].round = current_round - 1
      ]_vars

C29_Witness ==
    /\ pc = "done" /\ Len(api_calls) = 3 /\ api_calls[3].final
    /\ Len(dispatches) = 3
    /\ dispatches[1].round = 0 /\ dispatches[1].after_call = 1
    /\ dispatches[2].round = 0 /\ dispatches[2].raised
    /\ dispatches[3].round = 1 /\ dispatches[3].after_call = 2

\* The calls issued inside the round loop.
RoundCalls == {i \in DOMAIN api_calls : ~api_calls[i].final}

\* C30 as stated: every call of the round loop carries the tools argument and
\* tool choice automatic, whatever the tools argument is.
C30_Original ==
    \A i \in RoundCalls :
        /\ api_calls[i].tools.some
        /\ api_calls[i].tool_choice = Some("auto")

\* C30 (amended): when the tools argument is a non-empty list, every call of
\* the round loop carries that whole list and tool choice automatic; when it is
\* None or an empty list, the calls of the round loop carry neither tools nor a
\* tool choice.
C30_RoundCallTools ==
    \A i \in RoundCalls :
        IF tools.some /\ tools.val /= <<>>
        THEN /\ api_calls[i].tools = tools
             /\ api_calls[i].tool_choice = Some("auto")
        ELSE /\ api_calls[i].tools = None
             /\ api_calls[i].tool_choice = None

C30_Witness ==
    /\ tools = Some(<<"search_course_content", "get_course_outline">>)
    /\ Len(api_calls) = 2 /\ RoundCalls = {1, 2}
    /\ api_calls[2].tools = tools /\ api_calls[2].tool_choice = Some("auto")
    /\ Len(dispatches) >= 1

\* The tool_use blocks of the assistant turns of a history, in order: the
\* requested tool calls of the tool rounds that have ended.
RECURSIVE RequestedCalls(_)
RequestedCalls(msgs) ==
    IF msgs = <<>> THEN <<>>
    ELSE RequestedCalls(SubSeq(msgs, 1, Len(msgs) - 1))
            \o (IF msgs[Len(msgs)].role = "assistant"
                THEN ToolUseBlocks(msgs[Len(msgs)].content) ELSE <<>>)
ToolRounds(msgs) == Cardinality({i \in DOMAIN msgs : msgs[i].role = "assistant"})

\* C31: between rounds and at the end of a query, the dispatches made so far
\* are, one for one and in order, the tool_use blocks of the responses of the
\* tool rounds (same id, name and input): each requested call is dispatched
\* exactly once and no other block is dispatched; the round counter equals the
\* number of tool rounds, whatever the number of tool calls in them.
C31_DispatchOncePerCall ==
    pc \in {"loop", "done"} =>
        LET calls == RequestedCalls(messages)
        IN  /\ Len(dispatches) = Len(calls)
            /\ \A i \in DOMAIN calls :
                  /\ dispatches[i].id = calls[i].id
                  /\ dispatches[i].name = calls[i].name
                  /\ dispatches[i].input = calls[i].input
            /\ current_round = ToolRounds(messages)

C31_Witness ==
    /\ pc = "done" /\ outcome.kind = "returned"
    /\ current_round = 2 /\ ToolRounds(messages) = 2
    /\ Len(messages[2].content) = 2 /\ Len(ToolUseBlocks(messages[2].content)) = 1
    /\ Len(ToolUseBlocks(messages[4].content)) = 0
    /\ Len(dispatches) = 1

Collected(q) == inflight[q].pc \in {"collected", "done"}

\* C32: tools are safe to share between queries that run one after the other
\* and not between queries in flight together. A query that never shared its
\* time with the other one is returned exactly the sources of its own tool
\* executions; for two queries in flight together there is an interleaving
\* (the witness) in which one query is returned the sources written by the
\* other query's tool execution, and the other query, whose sources were
\* cleared before it collected them, is returned none.
C32_SharedToolsUnsafe ==
    \A q \in QueryIds :
        (Collected(q) /\ inflight[q].alone) =>
            inflight[q].sources = Some(inflight[q].expected)

C32_Witness ==
    /\ Collected(1) /\ Collected(2)
    /\ ~inflight[1].alone /\ ~inflight[2].alone
    /\ inflight[1].executed = 0
    /\ inflight[1].sources = Some(FormatSources(ResultsOther))
    /\ inflight[2].expected = FormatSources(ResultsOther)
    /\ inflight[2].sources = Some(<<>>)

\* The dispatches of the query that ran a tool.
Executions == SelectSeq(dispatches, LAMBDA d : d.ran /= "none")

\* C33 as stated: when a query has ended after some tool executions, the
\* sources get_last_sources returns are those produced by the most recently
\* executed tool.
C33_Original ==
    (pc = "done" /\ Executions /= <<>>) =>
        get_last_sources(registry, last_sources) = ProducedBy(Executions[Len(Executions)])

\* A query of the loop with max_rounds = 1 that has ended after a first
\* response that requested tools.
OneRoundEnded ==
    /\ pc = "done" /\ max_rounds = 1 /\ current_round = 1 /\ Len(api_calls) = 2
\* The legacy method on the same first response, with the same answers of the
\* storage layer and of the model.
Legacy ==
    handle_tool_execution(
        [stop_reason |-> "tool_use", content |-> messages[2].content],
        <<UserQuery>>,
        [i \in DOMAIN dispatches |-> dispatches[i].env],
        [failed |-> api_calls[2].failed, response |-> response],
        registry, NoSources)

\* C34: _handle_tool_execution does what the loop with max_rounds = 1 does
\* after a first response that requested tools: the same history (assistant
\* turn, then the tool results), the same dispatches with the same outcomes in
\* the same order, the same sources left on the tools, then exactly one model
\* call, without tools, and the same result: its text, or its failure. This
\* includes a first response without any tool_use block.
C34_LegacyEquivalent ==
    OneRoundEnded =>
        /\ messages = Legacy.messages
        /\ api_calls[2].final /\ ~api_calls[2].tools.some
        /\ api_calls[2].messages = Legacy.request.messages
        /\ api_calls[2].tools = Legacy.request.tools
        /\ api_calls[2].tool_choice = Legacy.request.tool_choice
        /\ Len(dispatches) = Len(Legacy.outs)
        /\ \A i \in DOMAIN dispatches :
              /\ dispatches[i].id = Legacy.outs[i].id
              /\ dispatches[i].raised = Legacy.outs[i].raised
              /\ dispatches[i].value = Legacy.outs[i].value
              /\ dispatches[i].ran = Legacy.outs[i].ran
        /\ last_sources = Legacy.last_sources
        /\ outcome = Legacy.outcome

C34_Witness ==
    /\ OneRoundEnded /\ outcome.kind = "returned"
    /\ Len(messages) = 3 /\ Len(messages[2].content) = 3
    /\ Len(dispatches) = 2
    /\ dispatches[1].raised /\ dispatches[2].ran = SearchTool
    /\ last_sources[SearchTool] /= <<>>

IsPrefix(a, b) == Len(a) <= Len(b) /\ SubSeq(b, 1, Len(a)) = a

\* C35: the history of a query only grows: the messages sent with a model call
\* are a prefix of the messages sent with the next model call of the query, and
\* the first message of every call is the user's query.
C35_HistoryAppendOnly ==
    /\ \A i \in DOMAIN api_calls :
          /\ api_calls[i].messages /= <<>>
          /\ api_calls[i].messages[1] = UserQuery
    /\ \A i \in DOMAIN api_calls :
          i < Len(api_calls) => IsPrefix(api_calls[i].messages, api_calls[i + 1].messages)
    /\ pc \in {"loop", "tools", "done"} =>
          /\ messages /= <<>> /\ messages[1] = UserQuery
          /\ api_calls /= <<>> => IsPrefix(api_calls[Len(api_calls)].messages, messages)

C35_Witness ==
    /\ Len(api_calls) = 3
    /\ Len(api_calls[1].messages) = 1
    /\ Len(api_calls[2].messages) = 3
    /\ Len(api_calls[3].messages) = 5
    /\ api_calls[3].final

\* A search that ends without formatted results: the store raised, the result
\* set carries an error, or it is empty.
SearchUnformatted ==
    SearchBound /\ (call.results.kind = "raise" \/ TruthyStr(call.results.error)
                        \/ is_empty(call.results))
\* An outline call that ends with the no-match, could-not-retrieve or error
\* message.
OutlineUnformatted == OutlineBound /\ ~OutlineSucceeds

\* C36: an execute() call that ends without formatted results leaves the
\* provenance as it was: after a search that returns an error string or a 'No
\* relevant content found' message, and after an outline call that returns a
\* no-match, could-not-retrieve or error message, last_sources (of that tool
\* and of the other) is what it was before the call.
C36_UnformattedKeepsSources ==
    /\ SearchUnformatted =>
          /\ last_sources = call.before
          /\ ~call.raised =>
                call.ret = IF TruthyStr(call.results.error)
                           THEN call.results.error.val
                           ELSE EmptyMessage(Arg(call.kwargs, "course_name"),
                                             Arg(call.kwargs, "lesson_number"))
    /\ OutlineUnformatted =>
          /\ last_sources = call.before
          /\ ~call.raised

C36_Witness ==
    /\ SearchUnformatted /\ ~call.raised /\ is_empty(call.results)
    /\ call.ret = "No relevant content found."
    /\ call.before[SearchTool] = FormatSources(ResultsLessonAndCourse)
    /\ last_sources[SearchTool] = FormatSources(ResultsLessonAndCourse)

C36_WitnessOutline ==
    /\ OutlineUnformatted /\ call.fetched
    /\ call.before[OutlineTool] /= <<>>
    /\ last_sources = call.before

\* C37: with max_rounds <= 0 a query makes exactly one model call, the call
\* carries no tool schemas (and no tool choice), and no tool is dispatched,
\* whatever tools and tool manager were given.
C37_NoRounds ==
    (pc /= "idle" /\ max_rounds <= 0) =>
        /\ dispatches = <<>>
        /\ Len(api_calls) <= 1
        /\ \A i \in DOMAIN api_calls :
              /\ api_calls[i].tools = None
              /\ api_calls[i].tool_choice = None
              /\ api_calls[i].final
        /\ pc = "done" <=> Len(api_calls) = 1
        /\ pc \in {"loop", "done"}

C37_Witness ==
    /\ pc = "done" /\ max_rounds = 0 - 1
    /\ tools = Some(<<"search_course_content", "get_course_outline">>)
    /\ tool_manager
    /\ Len(api_calls) = 1 /\ api_calls[1].tools = None
    /\ outcome.kind = "returned"
    /\ response.stop_reason = "tool_use"

\* The index reported a distance for the top result.
DistanceReported(q) ==
    /\ q.kind = "ok" /\ "distances" \in DOMAIN q
    /\ TruthySeq(q.distances) /\ q.distances.val[1] /= <<>>

\* C38 as stated: the resolver returns a title only when the index reported a
\* distance for the top result and that distance does not exceed the threshold;
\* a response with a top document but without a distance never resolves.
C38_Original ==
    (call.op = "resolve" /\ call.resolved.some) =>
        /\ DistanceReported(call.q)
        /\ TopDistance(call.q) <= Threshold

====
